---- MODULE Spec2Model ----
(***************************************************************************)
(* fabrix: dimension reconciliation (utils/image_utils.py, app.py,         *)
(* utils/image_processor.py) and outline extraction                        *)
(* (utils/outline_extractor.py).                                           *)
(*                                                                         *)
(* The dimension arithmetic of the source is Python float arithmetic       *)
(* (IEEE-754 binary64, round-to-nearest-even).  It is modelled bit for bit *)
(* on multi-limb naturals, because `int(w / (ow / oh))` rounds twice and   *)
(* does not always equal the exact quotient.                               *)
(***************************************************************************)
EXTENDS Integers, Sequences, FiniteSets, TLC

VARIABLES din, dout, oin, ores, esrgan_model, file, pin, pres, served,
          disk, session, now, uuid, req, resp

vars == <<din, dout, oin, ores, esrgan_model, file, pin, pres, served,
          disk, session, now, uuid, req, resp>>

\* the processor, the output file and the call of the processor
procVars == <<esrgan_model, file, pin, pres>>

\* the web application: the files of the three folders, the session of the
\* client, the clock (hours), the number of file names generated, the request
\* in flight and the last response
webVars == <<disk, session, now, uuid, req, resp>>

\* the application around the core operations: the number of enhancement
\* requests (enhance_image, upscale_only) the processor has served, and the
\* web application
appVars == <<served, webVars>>

\* the web application has served nothing
WebIdle ==
    /\ disk = {}
    /\ session = [uploaded_image |-> <<>>, original_dimensions |-> <<>>,
                  enhanced_image |-> <<>>]
    /\ now = 0
    /\ uuid = 0
    /\ req = [kind |-> "none"]
    /\ resp = [kind |-> "none"]

\* the application has done nothing
AppIdle == served = 0 /\ WebIdle

-----------------------------------------------------------------------------
(* Multi-limb naturals: six limbs of 15 bits, least significant first.     *)

LimbBase == 2^15

BigZero == <<0, 0, 0, 0, 0, 0>>

BigFromInt(n) ==
    <<n % LimbBase, (n \div LimbBase) % LimbBase, n \div (LimbBase * LimbBase),
      0, 0, 0>>

BigToInt(a) == a[1] + a[2] * LimbBase + a[3] * LimbBase * LimbBase

BigIsZero(a) == a = BigZero

RECURSIVE BigMulFrom(_, _, _, _)
BigMulFrom(a, t, i, c) ==
    IF i > 6 THEN <<>>
    ELSE LET s == a[i] * t + c
         IN  <<s % LimbBase>> \o BigMulFrom(a, t, i + 1, s \div LimbBase)

BigMulSmall(a, t) == BigMulFrom(a, t, 1, 0)

RECURSIVE BigAddFrom(_, _, _, _)
BigAddFrom(a, b, i, c) ==
    IF i > 6 THEN <<>>
    ELSE LET s == a[i] + b[i] + c
         IN  <<s % LimbBase>> \o BigAddFrom(a, b, i + 1, s \div LimbBase)

BigAdd(a, b) == BigAddFrom(a, b, 1, 0)

RECURSIVE BigSubFrom(_, _, _, _)
BigSubFrom(a, b, i, c) ==
    IF i > 6 THEN <<>>
    ELSE LET s == a[i] - b[i] - c
         IN  IF s < 0 THEN <<s + LimbBase>> \o BigSubFrom(a, b, i + 1, 1)
                      ELSE <<s>> \o BigSubFrom(a, b, i + 1, 0)

\* a - b for a >= b
BigSub(a, b) == BigSubFrom(a, b, 1, 0)

RECURSIVE BigCmpFrom(_, _, _)
BigCmpFrom(a, b, i) ==
    IF i = 0 THEN 0
    ELSE IF a[i] < b[i] THEN -1
    ELSE IF a[i] > b[i] THEN 1
    ELSE BigCmpFrom(a, b, i - 1)

BigCmp(a, b) == BigCmpFrom(a, b, 6)

\* short division of a by the small divisor d, from the top limb down
RECURSIVE BigDivFrom(_, _, _, _)
BigDivFrom(a, d, i, r) ==
    IF i = 0 THEN [q |-> <<>>, r |-> r]
    ELSE LET cur  == r * LimbBase + a[i]
             rest == BigDivFrom(a, d, i - 1, cur % d)
         IN  [q |-> rest.q \o <<cur \div d>>, r |-> rest.r]

BigDivSmall(a, d) == BigDivFrom(a, d, 6, 0)

Limb(a, i) == IF i >= 1 /\ i <= 6 THEN a[i] ELSE 0

BigShr(a, k) ==
    LET q == k \div 15
        r == k % 15
    IN  [j \in 1..6 |->
            (Limb(a, j + q) \div (2^r))
            + (Limb(a, j + q + 1) % (2^r)) * (2^(15 - r))]

BigShl(a, k) ==
    LET q == k \div 15
        r == k % 15
    IN  [j \in 1..6 |->
            ((Limb(a, j - q) * (2^r)) % LimbBase)
            + (Limb(a, j - q - 1) \div (2^(15 - r)))]

RECURSIVE IntBitLen(_)
IntBitLen(n) == IF n = 0 THEN 0 ELSE 1 + IntBitLen(n \div 2)

RECURSIVE BigBitLenFrom(_, _)
BigBitLenFrom(a, i) ==
    IF i = 0 THEN 0
    ELSE IF a[i] # 0 THEN 15 * (i - 1) + IntBitLen(a[i])
    ELSE BigBitLenFrom(a, i - 1)

BigBitLen(a) == BigBitLenFrom(a, 6)

\* bit j of a, bit 0 the least significant
BigBit(a, j) == (a[(j \div 15) + 1] \div (2^(j % 15))) % 2

-----------------------------------------------------------------------------
(* Python floats: sign, 53-bit significand m (2^52 <= m < 2^53, or 0) and  *)
(* exponent e, of value sign * m * 2^e.  The values of this program stay   *)
(* far from the exponent limits, so overflow and subnormals do not arise.  *)

Precision == 53

FZero == [sign |-> 1, m |-> BigZero, e |-> 0]

FIsZero(A) == BigIsZero(A.m)

\* x * 2^e (plus, when sticky, a nonzero fraction of its last place)
\* rounded to nearest, ties to even
FRound(sign, x, e, sticky) ==
    IF BigIsZero(x) THEN FZero
    ELSE LET n == BigBitLen(x) IN
         IF n <= Precision
         THEN [sign |-> sign, m |-> BigShl(x, Precision - n),
               e |-> e - (Precision - n)]
         ELSE LET k     == n - Precision
                  q     == BigShr(x, k)
                  guard == BigBit(x, k - 1) = 1
                  rest  == sticky \/ BigShl(BigShr(x, k - 1), k - 1) # x
                  odd   == q[1] % 2 = 1
                  q1    == IF guard /\ (rest \/ odd)
                           THEN BigAdd(q, BigFromInt(1)) ELSE q
              IN  IF BigBitLen(q1) > Precision
                  THEN [sign |-> sign, m |-> BigShr(q1, 1), e |-> e + k + 1]
                  ELSE [sign |-> sign, m |-> q1, e |-> e + k]

\* a / b on two ints (a >= 0, b > 0): Python's true division, correctly rounded
FDivInt(a, b) ==
    IF a = 0 THEN FZero
    ELSE LET d == BigDivSmall(<<0, 0, 0, 0, 0, a>>, b)
         IN  FRound(1, d.q, -75, d.r # 0)

\* t * A for an int t >= 0 (converted exactly) and a float A
FMulInt(t, A) == FRound(A.sign, BigMulSmall(A.m, t), A.e, FALSE)

\* One digit of the long division by D, a divisor of four limbs whose top
\* limb is at least LimbBase / 2: the remainder R < D gains a limb, the digit
\* is estimated from the top limbs (never too small, at most 2 too large)
\* and corrected, and the quotient Q gains the digit.
LongDivStep(st, D) ==
    LET Rb  == <<0>> \o SubSeq(st.R, 1, 5)
        est == (Rb[5] * LimbBase + Rb[4]) \div D[4]
        qh  == IF est > LimbBase - 1 THEN LimbBase - 1 ELSE est
        d   == IF BigCmp(BigMulSmall(D, qh), Rb) <= 0 THEN qh
               ELSE IF BigCmp(BigMulSmall(D, qh - 1), Rb) <= 0 THEN qh - 1
               ELSE qh - 2
    IN  [R |-> BigSub(Rb, BigMulSmall(D, d)),
         Q |-> <<d>> \o SubSeq(st.Q, 1, 5),
         j |-> st.j + 1]

\* eight digits; each step's result is bound as a value before the next
RECURSIVE LongDiv(_, _)
LongDiv(st, D) ==
    IF st.j = 8 THEN st
    ELSE CHOOSE r \in {LongDiv(nx, D) : nx \in {LongDivStep(st, D)}} : TRUE

\* t / A for an int t >= 0 and a float A > 0: floor(t * 2^127 / (A.m * 2^7))
\* has at least 55 bits, and is rounded with the remainder as sticky bit
FDivIntBy(t, A) ==
    IF t = 0 THEN FZero
    ELSE LET d == LongDiv([R |-> BigMulSmall(BigFromInt(t), 2^7), Q |-> BigZero,
                           j |-> 0], BigMulSmall(A.m, 2^7))
         IN  FRound(A.sign, d.Q, 0 - 120 - A.e, ~BigIsZero(d.R))

\* A - B for floats A, B >= 0
FSub(A, B) ==
    IF FIsZero(B) THEN A
    ELSE IF FIsZero(A) THEN [B EXCEPT !.sign = -1]
    ELSE LET emin == IF A.e < B.e THEN A.e ELSE B.e
             xa   == BigShl(A.m, A.e - emin)
             xb   == BigShl(B.m, B.e - emin)
         IN  IF BigCmp(xa, xb) >= 0
             THEN FRound(1, BigSub(xa, xb), emin, FALSE)
             ELSE FRound(-1, BigSub(xb, xa), emin, FALSE)

FAbs(A) == [A EXCEPT !.sign = 1]

\* A < B for floats A, B >= 0
FLess(A, B) ==
    IF FIsZero(B) THEN FALSE
    ELSE IF FIsZero(A) THEN TRUE
    ELSE A.e < B.e \/ (A.e = B.e /\ BigCmp(A.m, B.m) < 0)

\* int(A) for a float A >= 0: truncation toward zero
FTrunc(A) ==
    IF FIsZero(A) THEN 0
    ELSE IF A.e >= 0 THEN BigToInt(BigShl(A.m, A.e))
    ELSE IF 0 - A.e >= Precision THEN 0
    ELSE BigToInt(BigShr(A.m, 0 - A.e))

\* (k / 2) * A for an int k >= 0 and a float A: halving is exact
FMulHalves(k, A) ==
    LET P == FMulInt(k, A) IN IF FIsZero(P) THEN P ELSE [P EXCEPT !.e = @ - 1]

\* the literal 0.01
Hundredth == FDivInt(1, 100)

-----------------------------------------------------------------------------
(* Dimension reconciliation.  An optional argument is <<>> for None and    *)
(* <<v>> for the value v.  An outcome is a returned (width, height) pair,  *)
(* a ZeroDivisionError raised to the caller, or an error answer; resize    *)
(* holds the size handed to cv2.resize, <<>> when resize is not called.    *)

None == <<>>

Some(v) == <<v>>

\* Python truthiness of an optional int: None and 0 are falsy
Truthy(t) == t # None /\ t[1] # 0

Returned(op, w, h) ==
    [op |-> op, kind |-> "ok", width |-> w, height |-> h, resize |-> None]

Raised(op) ==
    [op |-> op, kind |-> "ZeroDivisionError", width |-> 0, height |-> 0,
     resize |-> None]

ErrorAnswer(op, resize) ==
    [op |-> op, kind |-> "error", width |-> 0, height |-> 0, resize |-> resize]

\* `target or original`
OrElse(t, original) == IF Truthy(t) THEN t[1] ELSE original

\* the fallback takes the wrong original axis
IndependentAxesCrossed(ow, oh, tw, th) ==
    Returned("calculate_new_dimensions", OrElse(tw, ow), OrElse(th, ow))

\* maintain_aspect = False: each axis on its own
IndependentAxes(ow, oh, tw, th) ==
    Returned("calculate_new_dimensions", OrElse(tw, ow), OrElse(th, oh))

\* width and height change places
NoTargetSwapped(ow, oh) == Returned("calculate_new_dimensions", oh, ow)

\* no target dimensions: the original size
NoTarget(ow, oh) == Returned("calculate_new_dimensions", ow, oh)

\* the width is always the axis kept
HeightIsLimitingNever(ow, oh, tw, th) == FALSE

\* the comparison the other way round
HeightIsLimitingFlipped(ow, oh, tw, th) == FLess(FDivInt(tw, ow), FDivInt(th, oh))

\* the branch test of the both-given case: which axis is recomputed
HeightIsLimiting(ow, oh, tw, th) == FLess(FDivInt(th, oh), FDivInt(tw, ow))

\* a tolerance of 0.001
AspectsMatchThousandth(aspect_ratio, target_aspect) ==
    FLess(FAbs(FSub(aspect_ratio, target_aspect)), FDivInt(1, 1000))

\* abs(aspect_ratio - target_aspect) < 0.01
AspectsMatch(aspect_ratio, target_aspect) ==
    FLess(FAbs(FSub(aspect_ratio, target_aspect)), Hundredth)

\* int(target_width / aspect_ratio)
HeightFromWidth(tw, aspect_ratio) == FTrunc(FDivIntBy(tw, aspect_ratio))

\* int(target_height * aspect_ratio)
WidthFromHeight(th, aspect_ratio) == FTrunc(FMulInt(th, aspect_ratio))

calculate_new_dimensions(ow, oh, tw, th, maintain_aspect) ==
    LET op == "calculate_new_dimensions" IN
    IF ~maintain_aspect THEN IndependentAxes(ow, oh, tw, th)
    ELSE IF oh = 0 THEN Raised(op)
    ELSE LET aspect_ratio == FDivInt(ow, oh) IN
         IF Truthy(tw) /\ ~Truthy(th)
         THEN IF FIsZero(aspect_ratio) THEN Raised(op)
              ELSE Returned(op, tw[1], HeightFromWidth(tw[1], aspect_ratio))
         ELSE IF Truthy(th) /\ ~Truthy(tw)
         THEN Returned(op, WidthFromHeight(th[1], aspect_ratio), th[1])
         ELSE IF Truthy(tw) /\ Truthy(th)
         THEN IF AspectsMatch(aspect_ratio, FDivInt(tw[1], th[1]))
              THEN Returned(op, tw[1], th[1])
              ELSE IF ow = 0 THEN Raised(op)
              ELSE IF HeightIsLimiting(ow, oh, tw[1], th[1])
              THEN Returned(op, WidthFromHeight(th[1], aspect_ratio), th[1])
              ELSE Returned(op, tw[1], HeightFromWidth(tw[1], aspect_ratio))
         ELSE NoTarget(ow, oh)

\* POST /api/calculate-dimensions: its own arithmetic, every exception
\* answered with an error and status 500
calculate_dimensions(ow, oh, changed_dimension, new_value) ==
    LET op == "calculate_dimensions" IN
    IF changed_dimension = "width"
    THEN IF ow = 0 THEN ErrorAnswer(op, None)
         ELSE Returned(op, new_value, FTrunc(FMulInt(new_value, FDivInt(oh, ow))))
    ELSE IF oh = 0 THEN ErrorAnswer(op, None)
         ELSE Returned(op, FTrunc(FMulInt(new_value, FDivInt(ow, oh))), new_value)

ESRGAN_SCALE == 4

\* abs(aspect_ratio - target_aspect) > 0.01
AspectsDiffer(aspect_ratio, target_aspect) ==
    FLess(Hundredth, FAbs(FSub(aspect_ratio, target_aspect)))

\* enhance_image, lines 70-88: the target size of an image decoded as
\* ow x oh (both >= 1), for targets that are None or positive
EnhanceTarget(ow, oh, tw, th, maintain_aspect) ==
    LET w0 == IF tw = None THEN ow ELSE tw[1]
        h0 == IF th = None THEN oh ELSE th[1]
    IN  IF maintain_aspect /\ w0 # 0 /\ h0 # 0
        THEN LET aspect_ratio == FDivInt(ow, oh) IN
             IF AspectsDiffer(aspect_ratio, FDivInt(w0, h0))
             THEN IF HeightIsLimiting(ow, oh, w0, h0)
                  THEN <<WidthFromHeight(h0, aspect_ratio), h0>>
                  ELSE <<w0, HeightFromWidth(w0, aspect_ratio)>>
             ELSE <<w0, h0>>
        ELSE <<w0, h0>>

Max(S) == CHOOSE m \in S : \A x \in S : x <= m

Min(S) == CHOOSE m \in S : \A x \in S : m <= x

-----------------------------------------------------------------------------
(* Calls of the core operations.  A call ends by returning a result or, if *)
(* nothing catches it, with an exception raised to the caller (raised).    *)
(* written is what the call left at output_path, which did not exist       *)
(* before.  env holds what the libraries answered during the call.         *)

NoFile == [state |-> "absent", width |-> 0, height |-> 0]

\* a file cut off in the middle of the encoding
PartialFile == [state |-> "partial", width |-> 0, height |-> 0]

\* an encoded image; decoding it gives an image of this size
ImageFile(size) == [state |-> "image", width |-> size[1], height |-> size[2]]

\* what a write that failed left behind
Left(env) == IF env.left = "partial" THEN PartialFile ELSE NoFile

\* no except clause: the exception reaches the caller
Uncaught(r) == r

\* `except Exception as e: return {'success': False, 'error': str(e)}`
Caught(r) == IF r.raised THEN [r EXCEPT !.raised = FALSE] ELSE r

-----------------------------------------------------------------------------
(* ImageProcessor.  esrgan_model is "none" when the construction of the    *)
(* model failed, "loaded" after it succeeded, "unloaded" after cleanup().  *)
(* A run is the state of one call: the stages entered, the size of the     *)
(* image in hand, the size handed to cv2.resize and the interpolation, the *)
(* message of the exception that ended it ("" when none did), the file.    *)

StartRun ==
    [trace |-> <<>>, size |-> <<0, 0>>, resize |-> None,
     interpolation |-> "none", inches |-> "none", error |-> "", written |-> NoFile]

Failed(run) == run.error # ""

Enter(run, stage) == [run EXCEPT !.trace = Append(@, stage)]

Raise(run, message) == [run EXCEPT !.error = message]

\* cv2.imread: the decoded image, None for a file that is no image
Imread(run, in) ==
    IF Failed(run) THEN run
    ELSE [Enter(run, "imread") EXCEPT !.size = <<in.ow, in.oh>>]

\* RealESRGANModel.upscale_image: reads the file again and enlarges it
\* by the configured scale
UpscaleImage(run, model, in, env) ==
    IF Failed(run) THEN run
    ELSE LET r == Enter(run, "upscale_image") IN
         IF model # "loaded"
         THEN Raise(r, "Model not loaded. Cannot perform upscaling.")
         ELSE IF ~in.readable THEN Raise(r, "Failed to read image")
         ELSE IF env.upscale = "raises" THEN Raise(r, "upscaling failed")
         ELSE [r EXCEPT !.size = <<in.scale * in.ow, in.scale * in.oh>>]

\* cubic only when the target is larger in both axes
InterpolationBothAxes(target, size) ==
    IF target[1] > size[1] /\ target[2] > size[2]
    THEN "INTER_CUBIC" ELSE "INTER_AREA"

\* lines 101-106: cubic when the target is larger in an axis, area otherwise
Interpolation(target, size) ==
    IF target[1] > size[1] \/ target[2] > size[2]
    THEN "INTER_CUBIC" ELSE "INTER_AREA"

\* cv2.resize: raises on a size that is not positive
CvResize(run, target, interpolation) ==
    IF Failed(run) THEN run
    ELSE LET r == [Enter(run, "resize") EXCEPT !.resize = target,
                                               !.interpolation = interpolation]
         IN  IF target[1] <= 0 \/ target[2] <= 0
             THEN Raise(r, "cv2.error")
             ELSE [r EXCEPT !.size = target]

\* the image is never resized
ResizeNever(run, target) == run

\* enhance_image, lines 94-114: resize when the target differs
ResizeToTarget(run, target) ==
    IF Failed(run) \/ target = run.size THEN run
    ELSE CvResize(run, target, Interpolation(target, run.size))

\* the image is resized to the target first and enlarged afterwards
ResizeThenUpscale(run, model, in, env, target) ==
    LET resized == ResizeToTarget([run EXCEPT !.size = <<in.ow, in.oh>>], target)
        r       == UpscaleImage(resized, model, in, env)
    IN  IF Failed(r) THEN r
        ELSE [r EXCEPT !.size = <<in.scale * resized.size[1],
                                  in.scale * resized.size[2]>>]

\* enhance_image, lines 90-114: step 1 enlarges the original, step 2 resizes
\* what step 1 produced
UpscaleThenResize(run, model, in, env, target) ==
    ResizeToTarget(UpscaleImage(run, model, in, env), target)

\* pil_image.save: the image in hand is encoded, or an exception is raised
PilSave(run, env) ==
    IF Failed(run) THEN run
    ELSE LET r == Enter(run, "save") IN
         IF env.write = "raised"
         THEN [Raise(r, "save failed") EXCEPT !.written = Left(env)]
         ELSE [r EXCEPT !.written = ImageFile(run.size)]

\* cv2.imwrite: the image is encoded, or False is returned (which the callers
\* do not look at), or an exception is raised
Imwrite(run, env) ==
    IF Failed(run) THEN run
    ELSE LET r == Enter(run, "imwrite") IN
         CASE env.write = "raised" ->
                  [Raise(r, "cv2.error") EXCEPT !.written = Left(env)]
           [] env.write = "refused" -> [r EXCEPT !.written = Left(env)]
           [] OTHER -> [r EXCEPT !.written = ImageFile(run.size)]

\* lines 176-177: target_width / ppi_horizontal, target_height / ppi_vertical;
\* of the quotients their sign is kept
PhysicalSize(run, target, in) ==
    IF Failed(run) THEN run
    ELSE LET r == Enter(run, "inches") IN
         IF in.ppi_horizontal = 0 \/ in.ppi_vertical = 0
         THEN Raise(r, "division by zero")
         ELSE [r EXCEPT !.inches =
                  IF target[1] * in.ppi_horizontal > 0
                     /\ target[2] * in.ppi_vertical > 0
                  THEN "positive" ELSE "not positive"]

\* the result dict of a call: output_info with the declared width and height
\* on success, the error message otherwise
ProcResult(op, run, declared, returned) ==
    [op |-> op, raised |-> (Failed(run) /\ ~returned), success |-> ~Failed(run),
     error |-> run.error,
     width |-> IF Failed(run) THEN 0 ELSE declared[1],
     height |-> IF Failed(run) THEN 0 ELSE declared[2],
     trace |-> run.trace, resize |-> run.resize,
     interpolation |-> run.interpolation, inches |-> run.inches,
     written |-> run.written]

\* `return {'success': False, 'error': ...}` before any stage is entered
EarlyFailure(op, run, message) ==
    ProcResult(op, Raise(run, message), <<0, 0>>, TRUE)

\* a request to a processor configured with the scale ESRGAN_SCALE
ProcInput(op, readable, ow, oh, tw, th, ppi_h, ppi_v, ma, mq) ==
    [op |-> op, readable |-> readable, ow |-> ow, oh |-> oh, tw |-> tw,
     th |-> th, ppi_horizontal |-> ppi_h, ppi_vertical |-> ppi_v,
     maintain_aspect |-> ma, maintain_quality |-> mq, scale |-> ESRGAN_SCALE]

ProcEnv(upscale, write, left) ==
    [upscale |-> upscale, write |-> write, left |-> left]

\* every library call does what it is asked
OkEnv == ProcEnv("ok", "written", "absent")

\* ImageProcessor.enhance_image
enhance_image(model, in, env) ==
    LET op == "enhance_image" IN
    Caught(
        IF model = "none"
        THEN EarlyFailure(op, StartRun, "ESRGAN model not initialized")
        ELSE IF ~in.readable
        THEN EarlyFailure(op, Enter(StartRun, "imread"), "Failed to read image")
        ELSE LET decoded == Imread(StartRun, in)
                 target  == EnhanceTarget(in.ow, in.oh, in.tw, in.th,
                                          in.maintain_aspect)
                 resized == UpscaleThenResize(decoded, model, in, env,
                                              target)
                 saved   == PilSave(resized, env)
                 done    == PhysicalSize(saved, target, in)
             IN  ProcResult(op, done, target, FALSE))

\* ImageProcessor.upscale_only
upscale_only(model, in, env) ==
    LET op == "upscale_only" IN
    Caught(
        IF model = "none"
        THEN EarlyFailure(op, StartRun, "ESRGAN model not initialized")
        ELSE LET upscaled == UpscaleImage(StartRun, model, in, env)
                 saved    == Imwrite(upscaled, env)
             IN  ProcResult(op, saved, upscaled.size, FALSE))

\* ImageProcessor.resize_image
resize_image(in, env) ==
    LET op == "resize_image" IN
    Caught(
        IF ~in.readable
        THEN EarlyFailure(op, Enter(StartRun, "imread"), "Failed to read image")
        ELSE LET decoded == Imread(StartRun, in)
                 size    == <<in.tw[1], in.th[1]>>
                 resized == CvResize(decoded, size,
                                     IF in.maintain_quality
                                     THEN "INTER_LANCZOS4" ELSE "INTER_LINEAR")
                 saved   == Imwrite(resized, env)
             IN  ProcResult(op, saved, size, FALSE))

\* the size a call of enhance_image resolved, as an outcome of the
\* dimension machine
DimView(r) ==
    IF r.success
    THEN [Returned(r.op, r.width, r.height) EXCEPT !.resize = r.resize]
    ELSE ErrorAnswer(r.op, r.resize)

-----------------------------------------------------------------------------
(* The dimension machine: an input is drawn, one operation is applied.     *)

MaxOrig == 4

MaxTarget == 5

Optional(S) == {None} \cup {Some(v) : v \in S}

DimInput(ow, oh, tw, th, ma) ==
    [ow |-> ow, oh |-> oh, tw |-> tw, th |-> th, maintain_aspect |-> ma]

\* the scenarios A and B of the specification, sizes whose double rounding
\* shows, sizes whose aspect ratios differ by exactly 0.01 and by 0.005
ScenarioInputs ==
    { DimInput(800, 600, Some(400), None, TRUE),
      DimInput(1000, 500, Some(400), Some(300), TRUE),
      DimInput(9, 7, Some(9), None, TRUE),
      DimInput(15, 11, None, Some(11), TRUE),
      DimInput(11, 15, Some(11), None, TRUE),
      DimInput(200, 100, Some(201), Some(100), TRUE),
      DimInput(100, 100, Some(101), Some(100), TRUE),
      DimInput(300, 200, Some(301), Some(200), TRUE) }

GridInputs ==
    { DimInput(ow, oh, tw, th, ma) :
        ow \in 0..MaxOrig, oh \in 0..MaxOrig,
        tw \in Optional(1..MaxTarget), th \in Optional(1..MaxTarget),
        ma \in BOOLEAN }

DimInputs == GridInputs \cup ScenarioInputs

NoResult ==
    [op |-> "none", kind |-> "none", width |-> 0, height |-> 0, resize |-> None]

IdleOutline == [op |-> "none"]

\* no call of the processor
IdleProc == [op |-> "none"]

DEFAULT_PPI == 72

InitDim ==
    /\ din \in DimInputs
    /\ dout = NoResult
    /\ oin = IdleOutline
    /\ ores = IdleOutline
    /\ esrgan_model = "loaded"
    /\ file = NoFile
    /\ pin = IdleProc
    /\ pres = IdleProc
    /\ AppIdle

CalculateNewDimensions ==
    /\ dout.op = "none"
    /\ dout' = calculate_new_dimensions(din.ow, din.oh, din.tw, din.th,
                                        din.maintain_aspect)
    /\ UNCHANGED <<din, oin, ores, procVars, appVars>>

\* the endpoint is asked with the dimension the user changed
CalculateDimensionsWidth ==
    /\ dout.op = "none"
    /\ din.tw # None
    /\ dout' = calculate_dimensions(din.ow, din.oh, "width", din.tw[1])
    /\ UNCHANGED <<din, oin, ores, procVars, appVars>>

CalculateDimensionsHeight ==
    /\ dout.op = "none"
    /\ din.th # None
    /\ dout' = [calculate_dimensions(din.ow, din.oh, "height", din.th[1])
                   EXCEPT !.op = "calculate_dimensions_height"]
    /\ UNCHANGED <<din, oin, ores, procVars, appVars>>

\* the size enhance_image resolves when the model is loaded, the image is
\* decoded (a decoded image has positive dimensions) and no library call fails
EnhanceImage ==
    /\ dout.op = "none"
    /\ din.ow >= 1 /\ din.oh >= 1
    /\ dout' = DimView(enhance_image("loaded",
                    ProcInput("enhance_image", TRUE, din.ow, din.oh, din.tw,
                              din.th, DEFAULT_PPI, DEFAULT_PPI,
                              din.maintain_aspect, TRUE),
                    OkEnv))
    /\ UNCHANGED <<din, oin, ores, procVars, appVars>>

NextDim ==
    \/ CalculateNewDimensions
    \/ CalculateDimensionsWidth
    \/ CalculateDimensionsHeight
    \/ EnhanceImage

SpecDim == InitDim /\ [][NextDim]_vars

-----------------------------------------------------------------------------
(* Outline extraction.  An image is a function from the pixels to its     *)
(* samples: <<blue, green, red>> for a decoded file, 0..255 for a gray     *)
(* image.  cv2.Canny is not computed: its answer is any edge map over      *)
(* {0, 255} with no edge where the denoised image is flat.                 *)

ImgW == 2

ImgH == 1

MaxThickness == 7

Pixels == (1..ImgW) \X (1..ImgH)

EdgeMaps == [Pixels -> {0, 255}]

\* img.shape: the width and the height of an image
Shape(img) ==
    <<Max({p[1] : p \in DOMAIN img}), Max({p[2] : p \in DOMAIN img})>>

\* cv2.cvtColor(img, cv2.COLOR_BGR2GRAY): 0.114 B + 0.587 G + 0.299 R in
\* fixed point with 15 fractional bits
CvtColor(img) ==
    [p \in DOMAIN img |->
        (3735 * img[p][1] + 19235 * img[p][2] + 9798 * img[p][3] + 16384)
            \div 32768]

\* BORDER_REFLECT_101: the coordinate inside 1..n that a coordinate outside
\* is taken from (gfedcb|abcdefgh|gfedcba)
Reflect101(i, n) ==
    IF n = 1 THEN 1
    ELSE LET period == 2 * (n - 1)
             j      == (i - 1) % period
         IN  IF j < n THEN j + 1 ELSE period - j + 1

\* BORDER_CONSTANT: samples outside the image are 0
BorderConstant(gray, x, y) ==
    IF <<x, y>> \in DOMAIN gray THEN gray[<<x, y>>] ELSE 0

\* the sample a filter reads at column x, row y, inside the image or not
BorderValue(gray, x, y) ==
    LET shape == Shape(gray)
    IN  gray[<<Reflect101(x, shape[1]), Reflect101(y, shape[2])>>]

\* the samples that decide the gradient at p after a filter of the given
\* radius: those within radius + 1 (the Sobel aperture is 3)
Support(gray, p, radius) ==
    { BorderValue(gray, p[1] + dx, p[2] + dy) :
        dx \in (0 - radius - 1)..(radius + 1),
        dy \in (0 - radius - 1)..(radius + 1) }

\* a filter with normalised weights gives a flat image back where all the
\* samples under it are equal, the gradient of a flat image is 0, and Canny
\* marks a pixel only if its gradient magnitude is above threshold1
CanBeEdge(gray, p, radius, threshold1) ==
    Cardinality(Support(gray, p, radius)) > 1 \/ 0 > threshold1

\* the answers of cv2.Canny once the image was denoised: the edges are any
\* of the pixels that can be one
Canny(gray, radius, threshold1) ==
    { [p \in Pixels |-> IF p \in marked THEN 255 ELSE 0] :
        marked \in SUBSET {p \in Pixels : CanBeEdge(gray, p, radius, threshold1)} }

CANNY_THRESHOLD1 == 50

OUTLINE_THICKNESS == 1

\* the upper limit forgotten
ClampThicknessLowerOnly(thickness) == Max({1, thickness})

\* thickness = max(1, min(5, thickness))
ClampThickness(thickness) == Max({1, Min({5, thickness})})

\* the integer nearest to the square root of n
RoundSqrt(n) ==
    CHOOSE d \in 0..n :
        4 * n < (2 * d + 1) * (2 * d + 1)
        /\ (d = 0 \/ (2 * d - 1) * (2 * d - 1) <= 4 * n)

\* cv2.getStructuringElement(cv2.MORPH_ELLIPSE, (k, k)) as the set of the
\* offsets (column - anchor, row - anchor) of its nonzero elements, the anchor
\* at the centre k \div 2: row i holds the columns c - dx .. c + dx with
\* dx = round(c * sqrt((r*r - dy*dy) / (r*r))), r = c = k \div 2, dy = i - r;
\* a 1 x 1 element is a rectangle
Ellipse(k) ==
    IF k = 1 THEN {<<0, 0>>}
    ELSE LET r == k \div 2
         IN  UNION { LET dy == i - r
                         dx == RoundSqrt(r * r - dy * dy)
                         j1 == Max({r - dx, 0})
                         j2 == Min({r + dx + 1, k})
                     IN  IF dy <= r /\ 0 - dy <= r
                         THEN {<<j - r, i - r>> : j \in j1..(j2 - 1)}
                         ELSE {}
                   : i \in 0..(k - 1) }

Covered(p, kernel) ==
    {q \in Pixels : \E off \in kernel : q = <<p[1] + off[1], p[2] + off[2]>>}

\* cv2.dilate: the maximum under the element, the border left out
Dilate(src, kernel) == [p \in Pixels |-> Max({src[q] : q \in Covered(p, kernel)})]

\* cv2.erode: the minimum under the element, the border left out
Erode(src, kernel) == [p \in Pixels |-> Min({src[q] : q \in Covered(p, kernel)})]

\* cv2.morphologyEx(edges, cv2.MORPH_CLOSE, kernel)
MorphClose(src, kernel) == Erode(Dilate(src, kernel), kernel)

\* the thickness step: dilation by a thickness x thickness ellipse when
\* thickness > 1
Thicken(edges, thickness) ==
    IF thickness > 1 THEN Dilate(edges, Ellipse(thickness)) ELSE edges

\* the sizes of the structuring elements built for the thickness
ThickKernels(thickness) == IF thickness > 1 THEN <<thickness>> ELSE <<>>

\* cv2.bitwise_not on 8-bit samples
BitwiseNot(img) == [p \in Pixels |-> 255 - img[p]]

\* cv2.THRESH_BINARY_INV
ThresholdBinaryInv(img) == [p \in Pixels |-> IF img[p] > 127 THEN 0 ELSE 255]

\* cv2.threshold(img, 127, 1, cv2.THRESH_BINARY): the maximum value 1
ThresholdBinaryToOne(img) == [p \in Pixels |-> IF img[p] > 127 THEN 1 ELSE 0]

\* cv2.threshold(img, 127, 255, cv2.THRESH_BINARY)
ThresholdBinary(img) == [p \in Pixels |-> IF img[p] > 127 THEN 255 ELSE 0]

\* invert, then force pure black and white
Finish(mask) == ThresholdBinary(BitwiseNot(mask))

\* Path(output_path).suffix.lower() of the suffixes drawn
Lower(ext) == IF ext = ".JPG" THEN ".jpg" ELSE ext

\* the encoder cv2.imwrite finds for the extension of the file name, "none"
\* where it finds none and raises
Writer(ext) ==
    CASE Lower(ext) = ".png" -> "png"
      [] Lower(ext) \in {".jpg", ".jpeg"} -> "jpeg"
      [] Lower(ext) = ".bmp" -> "bmp"
      [] Lower(ext) \in {".tif", ".tiff"} -> "tiff"
      [] Lower(ext) = ".webp" -> "webp"
      [] OTHER -> "none"

\* the parameters extract_outline hands to cv2.imwrite
OutlineParams(ext) ==
    CASE Lower(ext) = ".png" -> <<"IMWRITE_PNG_COMPRESSION", 9>>
      [] Lower(ext) \in {".jpg", ".jpeg"} -> <<"IMWRITE_JPEG_QUALITY", 95>>
      [] Lower(ext) = ".bmp" -> <<>>
      [] Lower(ext) \in {".tif", ".tiff"} -> <<>>
      [] Lower(ext) = ".webp" -> <<"IMWRITE_WEBP_QUALITY", 95>>
      [] OTHER -> <<"IMWRITE_PNG_COMPRESSION", 9>>

\* the parameters extract_outline_advanced hands to cv2.imwrite
AdvancedParams(ext) ==
    IF Lower(ext) = ".png" THEN <<"IMWRITE_PNG_COMPRESSION", 9>> ELSE <<>>

\* extract_outline_with_detail hands no parameters to cv2.imwrite
DetailParams(ext) == <<>>

\* no call of cv2.imwrite
NoEncode == [ext |-> "", params |-> <<>>, format |-> "none"]

\* the call of cv2.imwrite made in a run that came to it: the suffix of the
\* file name, the parameters and the encoder
Encoded(r, ext, params) ==
    IF \E i \in DOMAIN r.trace : r.trace[i] = "imwrite"
    THEN [r EXCEPT !.encode = [ext |-> ext, params |-> params,
                               format |-> Writer(ext)]]
    ELSE r

\* what the libraries answered during a call: the stage that raised ("none"
\* when none did), the edge map of cv2.Canny (left out, <<>>, where the call
\* fails whatever it is), what cv2.imwrite did, what a failed write left, and
\* the number of pixels the Otsu binarization made 255 (0 where it is not run)
OutlineEnv(fault, canny, write, left, whites) ==
    [fault |-> fault, canny |-> canny, write |-> write, left |-> left,
     whites |-> whites]

\* one call of a cv2 function, which may raise cv2.error
Stage(run, stage, env) ==
    IF Failed(run) THEN run
    ELSE IF env.fault = stage THEN Raise(Enter(run, stage), "cv2.error")
    ELSE Enter(run, stage)

\* a result without output_info: the error message
OutlineFailure(op, run, env, returned) ==
    [op |-> op, raised |-> ~returned, success |-> FALSE, error |-> run.error,
     thickness |-> 0, kernels |-> <<>>, mask |-> <<>>, outline |-> <<>>,
     width |-> 0, height |-> 0, detail_level |-> "", trace |-> run.trace,
     written |-> run.written, env |-> env, thresholds |-> <<>>,
     encode |-> NoEncode]

\* the success result: the reported thickness, the sizes of the elements
\* built for it, the edge map after the morphology, the outline handed to
\* cv2.imwrite and its shape
OutlineSuccess(op, thickness, kernels, mask, outline, run, env) ==
    [op |-> op, raised |-> FALSE, success |-> TRUE, error |-> "",
     thickness |-> thickness, kernels |-> kernels, mask |-> mask,
     outline |-> outline, width |-> Shape(outline)[1],
     height |-> Shape(outline)[2], detail_level |-> "", trace |-> run.trace,
     written |-> run.written, env |-> env, thresholds |-> <<>>,
     encode |-> NoEncode]

\* `if thickness is None: thickness = self.default_thickness`
DefaultThickness(thickness) ==
    IF thickness = None THEN OUTLINE_THICKNESS ELSE thickness[1]

\* no check of `img is None`: cv2.cvtColor raises on None
UnreadableUnchecked(op, env) ==
    OutlineFailure(op, Raise(Enter(Enter(StartRun, "imread"), "cvtColor"),
                             "cv2.error"), env, TRUE)

\* `img is None`: the failure returned for a file that is no image
Unreadable(op, env) ==
    OutlineFailure(op, Raise(Enter(StartRun, "imread"), "Failed to read image"),
                   env, TRUE)

\* cv2.imread of a file that is an image
Decoded(in) == [Enter(StartRun, "imread") EXCEPT !.size = Shape(in.image)]

\* the dilation entered whatever the thickness
DilateStageAlways(run, thickness, env) == Stage(run, "dilate", env)

\* the dilation stage, entered when thickness > 1
DilateStage(run, thickness, env) ==
    IF thickness > 1 THEN Stage(run, "dilate", env) ELSE run

\* invert, threshold, write
FinishStages(run, env) ==
    Imwrite(Stage(Stage(run, "bitwise_not", env), "threshold", env), env)

CANNY_THRESHOLD2 == 150

\* threshold1 of a detail level
DetailThreshold1(detail_level) ==
    CASE detail_level = "low" -> 100
      [] detail_level = "high" -> 30
      [] OTHER -> CANNY_THRESHOLD1

\* threshold2 of a detail level
DetailThreshold2(detail_level) ==
    CASE detail_level = "low" -> 200
      [] detail_level = "high" -> 100
      [] OTHER -> CANNY_THRESHOLD2

\* twice np.median of an image of n pixels over {0, 255}, whites of them 255:
\* the middle of the sorted samples, the mean of the two middle ones when n
\* is even
Median2(whites, n) ==
    LET sample(i) == IF i > n - whites THEN 255 ELSE 0
    IN  IF n % 2 = 1 THEN 2 * sample((n + 1) \div 2)
        ELSE sample(n \div 2) + sample(n \div 2 + 1)

\* the factors 0.3 and 0.6
OtsuThresholdsTenths(median2) ==
    <<FTrunc(FMulHalves(median2, FDivInt(3, 10))),
      FTrunc(FMulHalves(median2, FDivInt(6, 10)))>>

\* int(np.median(binary) * 0.33), int(np.median(binary) * 0.66)
OtsuThresholds(median2) ==
    <<FTrunc(FMulHalves(median2, FDivInt(33, 100))),
      FTrunc(FMulHalves(median2, FDivInt(66, 100)))>>

\* the thresholds extract_outline_advanced gives to cv2.Canny: those of the
\* Otsu binarization with auto_threshold, the configured ones without
AdvancedThresholds(in, env) ==
    IF in.auto_threshold
    THEN OtsuThresholds(Median2(env.whites, Cardinality(DOMAIN in.image)))
    ELSE <<CANNY_THRESHOLD1, CANNY_THRESHOLD2>>

\* the (threshold1, threshold2) cv2.Canny was called with, if it was called
GivenThresholds(r, thresholds) ==
    IF \E i \in DOMAIN r.trace : r.trace[i] = "Canny"
    THEN [r EXCEPT !.thresholds = thresholds] ELSE r

\* Gaussian blur, Canny with the configured thresholds, dilation
extract_outline(in, env) ==
    LET op        == "extract_outline"
        thickness == ClampThickness(DefaultThickness(in.thickness))
    IN  Caught(
        IF ~in.readable THEN Unreadable(op, env)
        ELSE LET gray     == Stage(Decoded(in), "cvtColor", env)
                 blurred  == Stage(gray, "GaussianBlur", env)
                 detected == Stage(blurred, "Canny", env)
                 saved    == FinishStages(DilateStage(detected, thickness, env),
                                          env)
             IN  Encoded(GivenThresholds(
                 IF Failed(saved) THEN OutlineFailure(op, saved, env, FALSE)
                 ELSE LET edges == Thicken(env.canny, thickness)
                      IN  OutlineSuccess(op, thickness, ThickKernels(thickness),
                                         edges, Finish(edges), saved, env),
                 <<CANNY_THRESHOLD1, CANNY_THRESHOLD2>>),
                 in.ext, OutlineParams(in.ext)))

\* bilateral filter, Canny with the Otsu-derived thresholds, 3 x 3 closing,
\* dilation
extract_outline_advanced(in, env) ==
    LET op        == "extract_outline_advanced"
        thickness == ClampThickness(DefaultThickness(in.thickness))
    IN  Caught(
        IF ~in.readable THEN Unreadable(op, env)
        ELSE LET gray     == Stage(Decoded(in), "cvtColor", env)
                 filtered == Stage(gray, "bilateralFilter", env)
                 binary   == IF in.auto_threshold
                             THEN Stage(filtered, "threshold_otsu", env)
                             ELSE filtered
                 detected == Stage(binary, "Canny", env)
                 closing  == Stage(detected, "morphologyEx", env)
                 saved    == FinishStages(DilateStage(closing, thickness, env),
                                          env)
             IN  Encoded(GivenThresholds(
                 IF Failed(saved) THEN OutlineFailure(op, saved, env, FALSE)
                 ELSE LET closed == Thicken(MorphClose(env.canny, Ellipse(3)),
                                            thickness)
                      IN  OutlineSuccess(op, thickness, ThickKernels(thickness),
                                         closed, Finish(closed), saved, env),
                 AdvancedThresholds(in, env)),
                 in.ext, AdvancedParams(in.ext)))

\* Gaussian blur and Canny thresholds by detail level, dilation
extract_outline_with_detail(in, env) ==
    LET op        == "extract_outline_with_detail"
        thickness == ClampThickness(DefaultThickness(in.thickness))
    IN  Caught(
        IF ~in.readable THEN Unreadable(op, env)
        ELSE LET gray     == Stage(Decoded(in), "cvtColor", env)
                 blurred  == Stage(gray, "GaussianBlur", env)
                 detected == Stage(blurred, "Canny", env)
                 saved    == FinishStages(DilateStage(detected, thickness, env),
                                          env)
             IN  Encoded(GivenThresholds(
                 IF Failed(saved) THEN OutlineFailure(op, saved, env, FALSE)
                 ELSE LET edges == Thicken(env.canny, thickness)
                      IN  [OutlineSuccess(op, thickness, ThickKernels(thickness),
                                          edges, Finish(edges), saved, env)
                              EXCEPT !.detail_level = in.detail_level],
                 <<DetailThreshold1(in.detail_level),
                   DetailThreshold2(in.detail_level)>>),
                 in.ext, DetailParams(in.ext)))

\* the radius of the blur kernel of a detail level: 7 x 7, 3 x 3, 5 x 5
BlurRadius(detail_level) ==
    CASE detail_level = "low" -> 3
      [] detail_level = "high" -> 1
      [] OTHER -> 2

\* the numbers of 255 the Otsu binarization of the filtered image can give:
\* a flat image stays flat
WhiteCounts(in) ==
    LET gray == CvtColor(in.image)
        n    == Cardinality(DOMAIN in.image)
    IN  IF in.strategy # "extract_outline_advanced" \/ ~in.auto_threshold
        THEN {0}
        ELSE IF Cardinality({gray[p] : p \in DOMAIN gray}) = 1 THEN {0, n}
        ELSE 0..n

\* what cv2.Canny can answer in a call
CannyAnswers(in, whites) ==
    LET gray == CvtColor(in.image) IN
    CASE in.strategy = "extract_outline" -> Canny(gray, 2, CANNY_THRESHOLD1)
      [] in.strategy = "extract_outline_advanced" ->
             Canny(gray, 4, AdvancedThresholds(in, [whites |-> whites])[1])
      [] OTHER -> Canny(gray, BlurRadius(in.detail_level),
                        DetailThreshold1(in.detail_level))

\* the stages whose failure is drawn
FaultStages == {"cvtColor", "Canny", "threshold"}

OutlineEnvs(in) ==
    IF ~in.readable THEN {OutlineEnv("none", <<>>, "written", "absent", 0)}
    ELSE IF Writer(in.ext) = "none"
    THEN {OutlineEnv(f, <<>>, "written", "absent", 0) : f \in FaultStages}
         \cup {OutlineEnv("none", <<>>, "raised", "absent", 0)}
    ELSE {OutlineEnv(f, <<>>, "written", "absent", 0) : f \in FaultStages}
         \cup {OutlineEnv("none", <<>>, "raised", l, 0) : l \in {"absent", "partial"}}
         \cup UNION {
                {OutlineEnv("none", c, "written", "absent", w) :
                    c \in CannyAnswers(in, w)}
                \cup {OutlineEnv("none", c, "refused", l, w) :
                        c \in CannyAnswers(in, w), l \in {"absent", "partial"}}
                : w \in WhiteCounts(in) }

Black == <<0, 0, 0>>

White == <<255, 255, 255>>

Red == <<0, 0, 255>>

\* an image of one colour
Solid(colour) == [p \in Pixels |-> colour]

\* a black column left of a white area
TwoTone == [p \in Pixels |-> IF p[1] = 1 THEN Black ELSE White]

Images == {Solid(c) : c \in {Black, White, Red}} \cup {TwoTone}

Strategies ==
    {"extract_outline", "extract_outline_advanced", "extract_outline_with_detail"}

\* detail_level is looked at by extract_outline_with_detail only
DetailLevels(strategy) ==
    IF strategy = "extract_outline_with_detail"
    THEN {"low", "medium", "high"} ELSE {"medium"}

\* auto_threshold is looked at by extract_outline_advanced only
AutoThresholds(strategy) ==
    IF strategy = "extract_outline_advanced" THEN BOOLEAN ELSE {TRUE}

\* the suffixes of output_path
Extensions ==
    {".png", ".jpg", ".JPG", ".jpeg", ".bmp", ".tif", ".tiff", ".webp", ".xyz",
     ""}

\* the thicknesses asked for with each suffix: every one with ".png", the
\* configured one with the others
Thicknesses(ext) ==
    IF ext = ".png" THEN Optional((0 - MaxThickness)..MaxThickness) ELSE {None}

OutlineInputs ==
    UNION {
        { [strategy |-> st, readable |-> TRUE, image |-> img, thickness |-> t,
           detail_level |-> d, auto_threshold |-> a, ext |-> x] :
            img \in Images, t \in Thicknesses(x),
            d \in DetailLevels(st), a \in AutoThresholds(st) }
        \cup
        { [strategy |-> st, readable |-> FALSE, image |-> <<>>, thickness |-> t,
           detail_level |-> d, auto_threshold |-> a, ext |-> x] :
            t \in Thicknesses(x),
            d \in DetailLevels(st), a \in AutoThresholds(st) }
        : st \in Strategies, x \in Extensions }

InitOutline ==
    /\ oin \in OutlineInputs
    /\ ores = IdleOutline
    /\ din = DimInput(1, 1, None, None, TRUE)
    /\ dout = NoResult
    /\ esrgan_model = "loaded"
    /\ file = NoFile
    /\ pin = IdleProc
    /\ pres = IdleProc
    /\ AppIdle

ExtractOutline ==
    /\ oin # IdleOutline /\ ores = IdleOutline
    /\ oin.strategy = "extract_outline"
    /\ \E env \in OutlineEnvs(oin) : ores' = extract_outline(oin, env)
    /\ file' = ores'.written
    /\ UNCHANGED <<oin, din, dout, esrgan_model, pin, pres, appVars>>

ExtractOutlineAdvanced ==
    /\ oin # IdleOutline /\ ores = IdleOutline
    /\ oin.strategy = "extract_outline_advanced"
    /\ \E env \in OutlineEnvs(oin) : ores' = extract_outline_advanced(oin, env)
    /\ file' = ores'.written
    /\ UNCHANGED <<oin, din, dout, esrgan_model, pin, pres, appVars>>

ExtractOutlineWithDetail ==
    /\ oin # IdleOutline /\ ores = IdleOutline
    /\ oin.strategy = "extract_outline_with_detail"
    /\ \E env \in OutlineEnvs(oin) : ores' = extract_outline_with_detail(oin, env)
    /\ file' = ores'.written
    /\ UNCHANGED <<oin, din, dout, esrgan_model, pin, pres, appVars>>

NextOutline ==
    \/ ExtractOutline
    \/ ExtractOutlineAdvanced
    \/ ExtractOutlineWithDetail

SpecOutline == InitOutline /\ [][NextOutline]_vars

-----------------------------------------------------------------------------
(* The core machine: one call of an operation of the outline extractor or  *)
(* of the image processor, the processor's model constructed or not, and   *)
(* cleanup() called before the call or not.                                *)

MaxSide == 1

MaxPipeTarget == 5

Ppis == {0 - DEFAULT_PPI, 0, DEFAULT_PPI}

\* the sizes of the decoded image; 0 x 0 stands for a file that is no image
Sources ==
    {<<TRUE, ow, oh>> : ow \in 1..MaxSide, oh \in 1..MaxSide}
    \cup {<<FALSE, 0, 0>>}

\* config['ESRGAN_SCALE']: "Upscaling factor (2 or 4)"
Scales == {2, ESRGAN_SCALE}

EnhanceInputs ==
    { [ProcInput("enhance_image", src[1], src[2], src[3], tw, th, ppi_h, ppi_v,
                 ma, TRUE) EXCEPT !.scale = sc] :
        src \in Sources,
        tw \in Optional(1..MaxPipeTarget), th \in Optional(1..MaxPipeTarget),
        ppi_h \in Ppis, ppi_v \in Ppis, ma \in BOOLEAN, sc \in Scales }

UpscaleInputs ==
    { [ProcInput("upscale_only", src[1], src[2], src[3], None, None,
                 DEFAULT_PPI, DEFAULT_PPI, TRUE, TRUE) EXCEPT !.scale = sc] :
        src \in Sources, sc \in Scales }

ResizeInputs ==
    { ProcInput("resize_image", src[1], src[2], src[3], Some(w), Some(h),
                DEFAULT_PPI, DEFAULT_PPI, TRUE, mq) :
        src \in Sources, w \in 0..MaxPipeTarget, h \in 0..MaxPipeTarget,
        mq \in BOOLEAN }

ProcInputs == EnhanceInputs \cup UpscaleInputs \cup ResizeInputs

\* pil_image.save encodes or raises
EnhanceEnvs ==
    {ProcEnv("raises", "written", "absent"), OkEnv}
    \cup {ProcEnv("ok", "raised", l) : l \in {"absent", "partial"}}

\* cv2.imwrite encodes, returns False or raises
ImwriteEnvs ==
    EnhanceEnvs
    \cup {ProcEnv("ok", "refused", l) : l \in {"absent", "partial"}}

\* a cleanup that loads the model again when it finds it unloaded
cleanupReloads(model) ==
    IF model = "loaded" THEN "unloaded"
    ELSE IF model = "unloaded" THEN "loaded" ELSE model

\* ImageProcessor.cleanup: RealESRGANModel.unload_model on the model, if any
cleanup(model) == IF model = "loaded" THEN "unloaded" ELSE model

InitCore ==
    /\ \/ /\ oin \in OutlineInputs
          /\ pin = IdleProc
          /\ esrgan_model = "loaded"
       \/ /\ oin = IdleOutline
          /\ pin \in ProcInputs
          /\ esrgan_model \in {"none", "loaded"}
    /\ ores = IdleOutline
    /\ pres = IdleProc
    /\ file = NoFile
    /\ din = DimInput(1, 1, None, None, TRUE)
    /\ dout = NoResult
    /\ AppIdle

Cleanup ==
    /\ pin # IdleProc /\ pres = IdleProc
    /\ esrgan_model' = cleanup(esrgan_model)
    /\ UNCHANGED <<din, dout, oin, ores, file, pin, pres, appVars>>

Enhance ==
    /\ pin.op = "enhance_image" /\ pres = IdleProc
    /\ \E env \in EnhanceEnvs : pres' = enhance_image(esrgan_model, pin, env)
    /\ file' = pres'.written
    /\ UNCHANGED <<din, dout, oin, ores, esrgan_model, pin, appVars>>

UpscaleOnly ==
    /\ pin.op = "upscale_only" /\ pres = IdleProc
    /\ \E env \in ImwriteEnvs : pres' = upscale_only(esrgan_model, pin, env)
    /\ file' = pres'.written
    /\ UNCHANGED <<din, dout, oin, ores, esrgan_model, pin, appVars>>

ResizeImage ==
    /\ pin.op = "resize_image" /\ pres = IdleProc
    /\ \E env \in ImwriteEnvs : pres' = resize_image(pin, env)
    /\ file' = pres'.written
    /\ UNCHANGED <<din, dout, oin, ores, esrgan_model, pin, appVars>>

NextCore ==
    \/ ExtractOutline
    \/ ExtractOutlineAdvanced
    \/ ExtractOutlineWithDetail
    \/ Cleanup
    \/ Enhance
    \/ UpscaleOnly
    \/ ResizeImage

SpecCore == InitCore /\ [][NextCore]_vars

-----------------------------------------------------------------------------
(* The life of the processor: app.py constructs it when the module is      *)
(* loaded, then requests and cleanup() calls follow in any order.          *)
(* esrgan_model is "absent" before the construction.                       *)

MaxCalls == 3

\* the requests served in the life of a processor
LifeInputs ==
    { in \in ProcInputs :
        /\ in.tw \in {None, Some(1)} /\ in.th = in.tw
        /\ in.ppi_horizontal = DEFAULT_PPI /\ in.ppi_vertical = DEFAULT_PPI
        /\ in.maintain_aspect /\ in.maintain_quality
        /\ in.scale = ESRGAN_SCALE }

\* the libraries do what they are asked, or the model raises
LifeEnvs == {OkEnv, ProcEnv("raises", "written", "absent")}

\* ImageProcessor.get_model_info
get_model_info(model) ==
    IF model = "none"
    THEN [op |-> "get_model_info", loaded |-> FALSE,
          error |-> "ESRGAN model not initialized"]
    ELSE [op |-> "get_model_info", loaded |-> (model = "loaded"), error |-> ""]

\* a construction that leaves the loading to the first request
InitializeWithoutLoading(loads) == "unloaded"

\* ImageProcessor._initialize_model: RealESRGANModel.__init__ loads the
\* weights; when the load raises, esrgan_model is None
initialize_model(loads) == IF loads THEN "loaded" ELSE "none"

InitLife ==
    /\ esrgan_model = "absent"
    /\ AppIdle
    /\ pin = IdleProc
    /\ pres = IdleProc
    /\ file = NoFile
    /\ oin = IdleOutline
    /\ ores = IdleOutline
    /\ din = DimInput(1, 1, None, None, TRUE)
    /\ dout = NoResult

\* ImageProcessor.__init__: _initialize_model constructs the model, which
\* loads its weights; a load that raises leaves esrgan_model None
Construct ==
    /\ esrgan_model = "absent"
    /\ \E loads \in BOOLEAN : esrgan_model' = initialize_model(loads)
    /\ pres' = [op |-> "__init__"]
    /\ UNCHANGED <<din, dout, oin, ores, file, pin, appVars>>

ServeEnhance ==
    /\ esrgan_model # "absent" /\ served < MaxCalls
    /\ \E in \in LifeInputs, env \in LifeEnvs :
           /\ in.op = "enhance_image"
           /\ pin' = in
           /\ pres' = enhance_image(esrgan_model, in, env)
    /\ file' = pres'.written
    /\ served' = served + 1
    /\ UNCHANGED <<din, dout, oin, ores, esrgan_model, webVars>>

ServeUpscaleOnly ==
    /\ esrgan_model # "absent" /\ served < MaxCalls
    /\ \E in \in LifeInputs, env \in LifeEnvs :
           /\ in.op = "upscale_only"
           /\ pin' = in
           /\ pres' = upscale_only(esrgan_model, in, env)
    /\ file' = pres'.written
    /\ served' = served + 1
    /\ UNCHANGED <<din, dout, oin, ores, esrgan_model, webVars>>

ServeResize ==
    /\ esrgan_model # "absent"
    /\ \E in \in LifeInputs, env \in LifeEnvs :
           /\ in.op = "resize_image"
           /\ pin' = in
           /\ pres' = resize_image(in, env)
    /\ file' = pres'.written
    /\ UNCHANGED <<din, dout, oin, ores, esrgan_model, appVars>>

GetModelInfo ==
    /\ esrgan_model # "absent"
    /\ pres' = get_model_info(esrgan_model)
    /\ UNCHANGED <<din, dout, oin, ores, esrgan_model, file, pin, appVars>>

CallCleanup ==
    /\ esrgan_model # "absent"
    /\ esrgan_model' = cleanup(esrgan_model)
    /\ pres' = [op |-> "cleanup"]
    /\ UNCHANGED <<din, dout, oin, ores, file, pin, appVars>>

NextLife ==
    \/ Construct
    \/ ServeEnhance
    \/ ServeUpscaleOnly
    \/ ServeResize
    \/ GetModelInfo
    \/ CallCleanup

SpecLife == InitLife /\ [][NextLife]_vars

-----------------------------------------------------------------------------
(* The web application (app.py).  A file is a record of its folder, its    *)
(* name, its modification time and the size of the image it holds (<<>>    *)
(* for a file that is no image).  The server is threaded: the handler of   *)
(* GET / (the janitor) runs between the file accesses of one request in    *)
(* flight.  Names stand for the uuid4-prefixed file names.                 *)

MaxFiles == 3

MaxTicks == 2

AUTO_CLEANUP == TRUE

CLEANUP_AFTER_HOURS == 24

\* the clock advances by the cleanup threshold
TickHours == CLEANUP_AFTER_HOURS

NoRequest == [kind |-> "none"]

File(folder, name, size) ==
    [folder |-> folder, name |-> name, mtime |-> now, size |-> size]

\* the files at a path
At(files, folder, name) == {f \in files : f.folder = folder /\ f.name = name}

\* Path.exists
Exists(files, folder, name) == At(files, folder, name) # {}

\* cv2.imread gives an image: the file is there and holds one
Readable(files, folder, name) ==
    \E f \in At(files, folder, name) : f.size # None

\* the size of the image at a path, 0 x 0 when cv2.imread gives None
SizeAt(files, folder, name) ==
    IF Readable(files, folder, name)
    THEN (CHOOSE f \in At(files, folder, name) : TRUE).size[1]
    ELSE <<0, 0>>

\* jsonify(...), status: the response, with the input_path of the handler
Response(kind, status, error, filename, original_url, input) ==
    [kind |-> kind, status |-> status, error |-> error, filename |-> filename,
     original_url |-> original_url, input |-> input]

\* `file_time < cutoff_time`
Stale(f) == f.mtime < now - CLEANUP_AFTER_HOURS

\* cleanup_old_files: the files of the three folders older than the cutoff
\* are removed
cleanup_old_files(files) ==
    IF AUTO_CLEANUP THEN {f \in files : ~Stale(f)} ELSE files

\* what the client sends as the file of an upload
UploadParts == {"missing", "empty_name", "disallowed", "not_image", "image"}

\* the sizes of the images uploaded
UploadSizes == {<<1, 1>>}

InitWeb ==
    /\ WebIdle
    /\ served = 0
    /\ esrgan_model = "loaded"
    /\ pin = IdleProc
    /\ pres = IdleProc
    /\ file = NoFile
    /\ oin = IdleOutline
    /\ ores = IdleOutline
    /\ din = DimInput(1, 1, None, None, TRUE)
    /\ dout = NoResult

coreVars == <<din, dout, oin, ores, esrgan_model, file, pin, pres, served>>

\* time passes between the requests: a request takes far less than a tick
Tick ==
    /\ req = NoRequest
    /\ now < MaxTicks * TickHours
    /\ now' = now + TickHours
    /\ UNCHANGED <<coreVars, disk, session, uuid, req, resp>>

\* index(): GET / runs cleanup_old_files
Index ==
    /\ disk' = cleanup_old_files(disk)
    /\ UNCHANGED <<coreVars, session, now, uuid, req, resp>>

\* upload_image: POST /api/upload
UploadImage ==
    /\ req = NoRequest /\ uuid < MaxFiles
    /\ \E part \in UploadParts, size \in UploadSizes :
        LET name == uuid + 1
            bad(status, error) ==
                /\ resp' = Response("upload", status, error, None, None, None)
                /\ UNCHANGED <<disk, session, uuid>>
        IN  CASE part = "missing" -> bad(400, "No image file provided")
              [] part = "empty_name" -> bad(400, "No file selected")
              [] part = "disallowed" -> bad(400, "File type not allowed")
              [] part = "not_image" ->
                     \* get_image_info returns {'error': ...}; the session
                     \* takes the name, then image_info['width'] raises
                     /\ disk' = disk \cup {File("uploads", name, None)}
                     /\ uuid' = name
                     /\ session' = [session EXCEPT !.uploaded_image = Some(name)]
                     /\ resp' = Response("upload", 500, "'width'", Some(name),
                                         None, None)
              [] OTHER ->
                     /\ disk' = disk \cup {File("uploads", name, Some(size))}
                     /\ uuid' = name
                     /\ session' = [session EXCEPT
                                       !.uploaded_image = Some(name),
                                       !.original_dimensions = Some(size)]
                     /\ resp' = Response("upload", 200, "", Some(name), None,
                                         None)
    /\ UNCHANGED <<coreVars, now, req>>

\* the file names a client can send
FileNames == Optional(1..MaxFiles)

\* enhance_image (app.py), up to the call of the processor: the checks of
\* the filename
EnhanceStart ==
    /\ req = NoRequest /\ uuid < MaxFiles
    /\ \E filename \in FileNames :
        IF filename = None
        THEN /\ resp' = Response("enhance", 400, "No filename provided", None,
                                 None, None)
             /\ req' = req
        ELSE IF ~Exists(disk, "uploads", filename[1])
        THEN /\ resp' = Response("enhance", 404, "Image file not found", None,
                                 None, None)
             /\ req' = req
        ELSE /\ req' = [kind |-> "enhance", pc |-> "imread",
                        folder |-> "uploads", filename |-> filename[1],
                        admitted |-> Readable(disk, "uploads", filename[1]),
                        use_enhanced |-> "absent", size |-> <<0, 0>>,
                        output |-> None]
             /\ resp' = resp
    /\ UNCHANGED <<coreVars, disk, session, now, uuid>>

\* the request handed to the processor for the file the handler names
EnhanceRequest(readable, size) ==
    ProcInput("enhance_image", readable, size[1], size[2], None, None,
              DEFAULT_PPI, DEFAULT_PPI, TRUE, TRUE)

\* what the processor answered is turned into the response
EnhanceFailed(result) ==
    /\ resp' = Response("enhance", 500, result.error, None, None,
                        <<req.folder, req.filename>>)
    /\ req' = NoRequest

\* ImageProcessor.enhance_image up to its cv2.imread
EnhanceImread ==
    /\ req.kind = "enhance" /\ req.pc = "imread"
    /\ LET readable == Readable(disk, req.folder, req.filename)
           size     == SizeAt(disk, req.folder, req.filename)
           result   == enhance_image(esrgan_model,
                                     EnhanceRequest(readable, size), OkEnv)
       IN  IF esrgan_model = "none" \/ ~readable
           THEN EnhanceFailed(result)
           ELSE /\ req' = [req EXCEPT !.pc = "upscale", !.size = size]
                /\ resp' = resp
    /\ UNCHANGED <<coreVars, disk, session, now, uuid>>

\* ImageProcessor.enhance_image from the call of the model, which reads the
\* file again, to the save of the output
EnhanceUpscale ==
    /\ req.kind = "enhance" /\ req.pc = "upscale"
    /\ LET again  == Readable(disk, req.folder, req.filename)
           env    == IF again THEN OkEnv
                     ELSE ProcEnv("raises", "written", "absent")
           result == enhance_image(esrgan_model,
                                   EnhanceRequest(TRUE, req.size), env)
           name   == uuid + 1
       IN  IF result.success
           THEN /\ disk' = disk \cup
                        {File("enhanced", name,
                              Some(<<result.width, result.height>>))}
                /\ uuid' = name
                /\ req' = [req EXCEPT !.pc = "respond", !.output = Some(name)]
                /\ resp' = resp
           ELSE /\ EnhanceFailed(result)
                /\ UNCHANGED <<disk, uuid>>
    /\ UNCHANGED <<coreVars, session, now>>

\* enhance_image (app.py) after the call of the processor
EnhanceRespond ==
    /\ req.kind = "enhance" /\ req.pc = "respond"
    /\ session' = [session EXCEPT !.enhanced_image = req.output]
    /\ resp' = Response("enhance", 200, "", req.output,
                        Some(<<"uploads", req.filename>>),
                        <<req.folder, req.filename>>)
    /\ req' = NoRequest
    /\ UNCHANGED <<coreVars, disk, now, uuid>>

\* data['use_enhanced']: the key is absent, or holds false or true
UseEnhanced == {"absent", "false", "true"}

\* extract_outline (app.py), up to the call of the extractor: the choice of
\* the input and the checks
OutlineStart ==
    /\ req = NoRequest /\ uuid < MaxFiles
    /\ \E use_enhanced \in UseEnhanced, filename \in FileNames :
        LET enhanced == use_enhanced = "true" /\ session.enhanced_image # None
            folder   == IF enhanced THEN "enhanced" ELSE "uploads"
            name     == IF enhanced THEN session.enhanced_image ELSE filename
        IN  IF name = None
            THEN /\ resp' = Response("outline", 400, "No image provided", None,
                                     None, None)
                 /\ req' = req
            ELSE IF ~Exists(disk, folder, name[1])
            THEN /\ resp' = Response("outline", 404, "Image file not found",
                                     None, None, None)
                 /\ req' = req
            ELSE /\ req' = [kind |-> "outline", pc |-> "imread",
                            folder |-> folder, filename |-> name[1],
                            admitted |-> Readable(disk, folder, name[1]),
                            use_enhanced |-> use_enhanced, size |-> <<0, 0>>,
                            output |-> None]
                 /\ resp' = resp
    /\ UNCHANGED <<coreVars, disk, session, now, uuid>>

\* the request handed to the extractor: thickness from the configuration,
\* format png; the picture stands for the one in the file
OutlineRequest(readable) ==
    [strategy |-> "extract_outline", readable |-> readable,
     image |-> IF readable THEN Solid(White) ELSE <<>>,
     thickness |-> Some(OUTLINE_THICKNESS), detail_level |-> "medium",
     auto_threshold |-> TRUE, ext |-> ".png"]

\* OutlineExtractor.extract_outline, from its cv2.imread to its cv2.imwrite
OutlineExtract ==
    /\ req.kind = "outline" /\ req.pc = "imread"
    /\ LET readable == Readable(disk, req.folder, req.filename)
           in       == OutlineRequest(readable)
           name     == uuid + 1
       IN  \E env \in OutlineEnvs(in) :
             /\ env.fault = "none" /\ env.write = "written"
             /\ LET result == extract_outline(in, env) IN
                IF result.success
                THEN /\ disk' = disk \cup
                             {File("outlined", name,
                                   Some(<<result.width, result.height>>))}
                     /\ uuid' = name
                     /\ req' = [req EXCEPT !.pc = "respond",
                                           !.output = Some(name)]
                     /\ resp' = resp
                ELSE /\ resp' = Response("outline", 500, result.error, None,
                                         None, <<req.folder, req.filename>>)
                     /\ req' = NoRequest
                     /\ UNCHANGED <<disk, uuid>>
    /\ UNCHANGED <<coreVars, session, now>>

\* extract_outline (app.py) after the call of the extractor
OutlineRespond ==
    /\ req.kind = "outline" /\ req.pc = "respond"
    /\ resp' = Response("outline", 200, "", req.output,
                        Some(<<IF req.use_enhanced # "absent"
                               THEN "enhanced" ELSE "uploads",
                               req.filename>>),
                        <<req.folder, req.filename>>)
    /\ req' = NoRequest
    /\ UNCHANGED <<coreVars, disk, session, now, uuid>>

NextWeb ==
    \/ Tick
    \/ Index
    \/ UploadImage
    \/ EnhanceStart
    \/ EnhanceImread
    \/ EnhanceUpscale
    \/ EnhanceRespond
    \/ OutlineStart
    \/ OutlineExtract
    \/ OutlineRespond

SpecWeb == InitWeb /\ [][NextWeb]_vars

-----------------------------------------------------------------------------
(* Claims on dimension reconciliation, checked under SpecDim.              *)

IsCalc == dout.op = "calculate_new_dimensions"

IsEnhance == dout.op = "enhance_image"

PositiveOriginal == din.ow >= 1 /\ din.oh >= 1

OnlyWidth == din.tw # None /\ din.th = None

OnlyHeight == din.th # None /\ din.tw = None

BothGiven == din.tw # None /\ din.th # None

\* the size enhance_image resolved: the one it returns, or the one it
\* handed to cv2.resize when resize rejected it
EnhanceResolved ==
    IF dout.kind = "ok" THEN <<dout.width, dout.height>> ELSE dout.resize

\* |ow/oh - tw/th| compared with 1/100 in exact arithmetic (oh, th >= 1)
AspectGap == IF din.ow * din.th[1] >= din.tw[1] * din.oh
             THEN din.ow * din.th[1] - din.tw[1] * din.oh
             ELSE din.tw[1] * din.oh - din.ow * din.th[1]

GapBelowHundredth == 100 * AspectGap < din.oh * din.th[1]

GapAboveHundredth == 100 * AspectGap > din.oh * din.th[1]

\* C1: with maintain_aspect and only a width w' given the result is
\* (w', trunc(w'*h/w)), with only a height h' it is (trunc(h'*w/h), h'),
\* in calculate_new_dimensions and in the endpoint; 800x600 with width 400
\* gives (400, 300).
C1_SingleTargetTruncates ==
    PositiveOriginal =>
        /\ (IsCalc /\ din.maintain_aspect /\ OnlyWidth) =>
              /\ dout.kind = "ok" /\ dout.width = din.tw[1]
              /\ dout.height = (din.tw[1] * din.oh) \div din.ow
        /\ (IsCalc /\ din.maintain_aspect /\ OnlyHeight) =>
              /\ dout.kind = "ok" /\ dout.height = din.th[1]
              /\ dout.width = (din.th[1] * din.ow) \div din.oh
        /\ dout.op = "calculate_dimensions" =>
              /\ dout.kind = "ok" /\ dout.width = din.tw[1]
              /\ dout.height = (din.tw[1] * din.oh) \div din.ow
        /\ dout.op = "calculate_dimensions_height" =>
              /\ dout.kind = "ok" /\ dout.height = din.th[1]
              /\ dout.width = (din.th[1] * din.ow) \div din.oh

\* C2 as claimed: with maintain_aspect, both targets given and the aspect
\* ratios at least 0.01 apart, the axis with the larger ratio target/original
\* is kept and the other recomputed; 1000x500 with (400, 300) gives (600, 300).
C2_LargerRatioAxisKept ==
    (IsCalc /\ din.maintain_aspect /\ BothGiven /\ PositiveOriginal
        /\ ~GapBelowHundredth) =>
        /\ dout = IF din.tw[1] * din.oh > din.th[1] * din.ow
                  THEN calculate_new_dimensions(din.ow, din.oh, din.tw, None, TRUE)
                  ELSE calculate_new_dimensions(din.ow, din.oh, None, din.th, TRUE)
        /\ (din.ow = 1000 /\ din.oh = 500 /\ din.tw = Some(400) /\ din.th = Some(300))
              => (dout.width = 600 /\ dout.height = 300)

\* C2 amended: with maintain_aspect, both targets given and the aspect ratios
\* more than 0.01 apart, the axis with the smaller ratio target/original is
\* kept and the other is recomputed as when only the kept axis is given, in
\* calculate_new_dimensions and in enhance_image; 1000x500 with (400, 300)
\* gives (400, 200).
C2_SmallerRatioAxisKept ==
    (din.maintain_aspect /\ BothGiven /\ PositiveOriginal /\ GapAboveHundredth) =>
        LET kept == IF din.tw[1] * din.oh > din.th[1] * din.ow
                    THEN calculate_new_dimensions(din.ow, din.oh, None, din.th, TRUE)
                    ELSE calculate_new_dimensions(din.ow, din.oh, din.tw, None, TRUE)
        IN  /\ IsCalc => dout = kept
            /\ IsEnhance => EnhanceResolved = <<kept.width, kept.height>>
            /\ (IsCalc /\ din.ow = 1000 /\ din.oh = 500 /\ din.tw = Some(400)
                    /\ din.th = Some(300))
                  => (dout.width = 400 /\ dout.height = 200)

C2_Witness ==
    /\ IsCalc /\ din.ow = 1000 /\ din.oh = 500
    /\ din.tw = Some(400) /\ din.th = Some(300) /\ din.maintain_aspect
    /\ dout.width = 400 /\ dout.height = 200

\* C3: with maintain_aspect and both targets given the reconciled size fits
\* inside the requested box, in calculate_new_dimensions and in enhance_image.
C3_FitsInsideBox ==
    (din.maintain_aspect /\ BothGiven) =>
        /\ (IsCalc /\ dout.kind = "ok") =>
              (dout.width <= din.tw[1] /\ dout.height <= din.th[1])
        /\ IsEnhance =>
              (EnhanceResolved[1] <= din.tw[1] /\ EnhanceResolved[2] <= din.th[1])

\* an axis was recomputed and came out smaller than asked for
C3_Witness ==
    /\ IsCalc /\ din.maintain_aspect /\ BothGiven /\ dout.kind = "ok"
    /\ dout.width < din.tw[1] /\ dout.height = din.th[1] /\ dout.width >= 1

\* C4: with maintain_aspect and both targets given, aspect ratios less than
\* 0.01 apart give back exactly (targetW, targetH); a result that differs from
\* the targets therefore occurs only when the gap is not below 0.01.
C4_MatchingAspectsUnchanged ==
    (IsCalc /\ din.maintain_aspect /\ BothGiven /\ din.oh >= 1
        /\ GapBelowHundredth) =>
        (dout.kind = "ok" /\ dout.width = din.tw[1] /\ dout.height = din.th[1])

\* unequal aspect ratios within 0.01, where a recomputation would have
\* changed the size
C4_Witness ==
    /\ IsCalc /\ din.maintain_aspect /\ BothGiven /\ PositiveOriginal
    /\ GapBelowHundredth /\ AspectGap # 0
    /\ dout.width = din.tw[1] /\ dout.height = din.th[1]
    /\ calculate_new_dimensions(din.ow, din.oh, None, din.th, TRUE).width # din.tw[1]

\* C5: with no target given, calculate_new_dimensions returns the original
\* size (w, h) of every image size w, h >= 1.
C5_NoTargetIsIdentity ==
    (IsCalc /\ din.tw = None /\ din.th = None /\ PositiveOriginal) =>
        (dout.kind = "ok" /\ dout.width = din.ow /\ dout.height = din.oh)

C5_Witness ==
    /\ IsCalc /\ din.tw = None /\ din.th = None /\ din.maintain_aspect
    /\ din.ow = 3 /\ din.oh = 2 /\ dout.width = 3 /\ dout.height = 2

\* C6: with maintain_aspect = false each axis is decided on its own: the
\* target when one is given, the original otherwise.
C6_IndependentAxes ==
    ~din.maintain_aspect =>
        LET w == IF din.tw # None THEN din.tw[1] ELSE din.ow
            h == IF din.th # None THEN din.th[1] ELSE din.oh
        IN  /\ IsCalc => (dout.kind = "ok" /\ dout.width = w /\ dout.height = h)
            /\ IsEnhance => EnhanceResolved = <<w, h>>

\* a width is given, no height, and the aspect ratio is not kept
C6_Witness ==
    /\ IsCalc /\ ~din.maintain_aspect /\ OnlyWidth
    /\ din.ow = 4 /\ din.oh = 1 /\ dout.width = din.tw[1] /\ dout.width # 4
    /\ dout.height = 1

\* C7: an original width or height of 0 is answered with an error, by
\* calculate_new_dimensions and by the endpoint.
C7_ZeroOriginalIsError ==
    (dout.op # "none" /\ (din.ow = 0 \/ din.oh = 0)) => dout.kind # "ok"

\* C8: for positive originals and targets every resolved size, returned or
\* handed to the resize step, has width >= 1 and height >= 1.
C8_ResolvedSizePositive ==
    PositiveOriginal =>
        /\ dout.kind = "ok" => (dout.width >= 1 /\ dout.height >= 1)
        /\ dout.resize # None => (dout.resize[1] >= 1 /\ dout.resize[2] >= 1)

-----------------------------------------------------------------------------
(* Claims on outline extraction, checked under SpecOutline.                *)

OutlineDone == ores # IdleOutline

\* the result of the same request, the libraries answering the same, with
\* the thickness t instead
WithThickness(t) ==
    LET in == [oin EXCEPT !.thickness = Some(t)]
    IN  CASE oin.strategy = "extract_outline" -> extract_outline(in, ores.env)
          [] oin.strategy = "extract_outline_advanced" ->
                 extract_outline_advanced(in, ores.env)
          [] OTHER -> extract_outline_with_detail(in, ores.env)

\* C9: in all three strategies the thickness is clamped to [1, 5] before a
\* structuring element is built: a thickness above 5 gives the result and the
\* reported thickness of 5, one below 1 those of 1, and no element built for
\* the thickness has a size outside 1..5.
C9_ThicknessClamped ==
    OutlineDone =>
        /\ (oin.thickness # None /\ oin.thickness[1] > 5) => ores = WithThickness(5)
        /\ (oin.thickness # None /\ oin.thickness[1] < 1) => ores = WithThickness(1)
        /\ \A i \in 1..Len(ores.kernels) : ores.kernels[i] \in 1..5
        /\ ores.success => ores.thickness \in 1..5

\* thickness 7 was asked for and a 5 x 5 element widened some edge
C9_Witness ==
    /\ OutlineDone /\ ores.success
    /\ oin.thickness = Some(7) /\ ores.thickness = 5 /\ ores.kernels = <<5>>
    /\ ores.mask # ores.env.canny

\* C10: the image handed to the encoder by a successful extraction is
\* two-valued, and a pixel is black (0) exactly when it is an edge pixel of
\* the dilated or closed edge map, white (255) otherwise.
C10_OutlineTwoValued ==
    (OutlineDone /\ ores.success) =>
        \A p \in Pixels :
            /\ ores.outline[p] \in {0, 255}
            /\ ores.outline[p] = 0 <=> ores.mask[p] = 255
            /\ ores.outline[p] = 255 <=> ores.mask[p] = 0

\* an outline with a black edge pixel and a white background pixel
C10_Witness ==
    /\ OutlineDone /\ ores.success
    /\ \E p, q \in Pixels : ores.outline[p] = 0 /\ ores.outline[q] = 255

\* C11: the finishing step (bitwise_not, then threshold at 127 to {0, 255})
\* applied twice in a row to an image that is already an output of the step
\* gives that image back; the outputs are two-valued.
C11_FinishTwiceIsIdentity ==
    (OutlineDone /\ ores.success) =>
        /\ \A p \in Pixels : ores.outline[p] \in {0, 255}
        /\ ores.outline = Finish(ores.mask)
        /\ Finish(Finish(ores.outline)) = ores.outline

\* an outline with both values, which one application of the step inverts
C11_Witness ==
    /\ OutlineDone /\ ores.success
    /\ \E p, q \in Pixels : ores.outline[p] = 0 /\ ores.outline[q] = 255
    /\ Finish(ores.outline) # ores.outline
    /\ Finish(ores.outline) = ores.mask

\* the decoded image has one colour
IsSolid(image) == \A p, q \in DOMAIN image : image[p] = image[q]

\* C12: extract_outline (thresholds 50 and 150) with thickness 1 on an image
\* of one colour detects no edge, and every pixel of its output is white (255).
C12_SolidImageAllWhite ==
    (/\ OutlineDone /\ ores.success /\ ores.op = "extract_outline"
     /\ IsSolid(oin.image) /\ ores.thickness = 1) =>
        /\ \A p \in Pixels : ores.env.canny[p] = 0
        /\ \A p \in Pixels : ores.outline[p] = 255

\* a red image, thickness 1 asked for, an all-white outline written
C12_Witness ==
    /\ OutlineDone /\ ores.success /\ ores.op = "extract_outline"
    /\ oin.image = Solid(Red) /\ oin.thickness = Some(1)
    /\ \A p \in Pixels : ores.outline[p] = 255
    /\ file = ImageFile(<<ImgW, ImgH>>)

-----------------------------------------------------------------------------
(* Claims on the calls of the core operations, checked under SpecCore.     *)

ProcDone == pres # IdleProc

CallDone == OutlineDone \/ ProcDone

\* the result of the call that was made
Result == IF OutlineDone THEN ores ELSE pres

\* the file at input_path is no image
SourceUndecodable == IF oin # IdleOutline THEN ~oin.readable ELSE ~pin.readable

OutlineOps ==
    {"extract_outline", "extract_outline_advanced", "extract_outline_with_detail"}

\* the call stopped at cv2.imread or before it and left output_path alone
StoppedAtDecode ==
    /\ ~Result.raised /\ ~Result.success
    /\ Result.trace \in {<<>>, <<"imread">>}
    /\ Result.written = NoFile /\ file = NoFile

\* C13 as claimed: when the source cannot be decoded, every outline strategy,
\* enhance_image and resize_image return a failure that names the decode
\* failure, enter no later stage and write nothing to output_path.
C13_DecodeFailureNamed ==
    (/\ CallDone /\ SourceUndecodable
     /\ Result.op \in OutlineOps \cup {"enhance_image", "resize_image"}) =>
        /\ StoppedAtDecode
        /\ Result.error = "Failed to read image"

\* C13 amended: when the source cannot be decoded, every outline strategy,
\* resize_image, and enhance_image of a processor whose model was constructed
\* return a failure that names the decode failure; enhance_image of a
\* processor without a model returns the failure "ESRGAN model not
\* initialized" without reading the source; in every case the call enters no
\* stage after the decoding and writes nothing to output_path.
C13_DecodeFailureNamedWithModel ==
    (/\ CallDone /\ SourceUndecodable
     /\ Result.op \in OutlineOps \cup {"enhance_image", "resize_image"}) =>
        /\ StoppedAtDecode
        /\ IF Result.op = "enhance_image" /\ esrgan_model = "none"
           THEN Result.error = "ESRGAN model not initialized" /\ Result.trace = <<>>
           ELSE Result.error = "Failed to read image" /\ Result.trace = <<"imread">>

\* enhance_image, its model loaded, answered the decode failure
C13_Witness ==
    /\ ProcDone /\ pres.op = "enhance_image" /\ ~pin.readable
    /\ esrgan_model = "loaded"
    /\ ~pres.success /\ pres.error = "Failed to read image"
    /\ pres.trace = <<"imread">> /\ file = NoFile

\* C14: whenever enhance_image, upscale_only, resize_image or one of the
\* three outline operations returns success = false, whatever the stage that
\* failed, output_path holds no file created or partly written by the call.
C14_FailureLeavesNoFile ==
    (CallDone /\ ~Result.success) => file = NoFile

\* the model of the processor is not loaded: never constructed, or unloaded
ModelNotLoaded == esrgan_model # "loaded"

ModelUnavailable ==
    {"ESRGAN model not initialized", "Model not loaded. Cannot perform upscaling."}

\* C15: when the model is not loaded (construction failed, or unloaded by
\* cleanup()), enhance_image returns a failure that reports the model as
\* unavailable, resizes nothing and creates no file at output_path.
C15_ModelUnavailableReported ==
    (ProcDone /\ pres.op = "enhance_image" /\ ModelNotLoaded) =>
        /\ ~pres.raised /\ ~pres.success
        /\ pres.error \in ModelUnavailable
        /\ pres.resize = None /\ "resize" \notin {pres.trace[i] : i \in DOMAIN pres.trace}
        /\ file = NoFile

EnhanceDone == ProcDone /\ pres.op = "enhance_image"

\* the positions of a stage in the trace of the call
Positions(stage) == {i \in DOMAIN pres.trace : pres.trace[i] = stage}

\* the size of what the model gives for the decoded source
Upscaled == <<pin.scale * pin.ow, pin.scale * pin.oh>>

\* the size enhance_image reconciled for the request
Reconciled ==
    EnhanceTarget(pin.ow, pin.oh, pin.tw, pin.th, pin.maintain_aspect)

\* C16: in every successful enhance_image the model is run on the decoded
\* original before any resize, the resize (if any) is applied to what the
\* model gave and comes before the encoding; no resize precedes the model.
C16_UpscaleBeforeResize ==
    (EnhanceDone /\ pres.success) =>
        /\ Positions("imread") = {1} /\ Positions("upscale_image") = {2}
        /\ \A i \in Positions("resize") : i = 3
        /\ Positions("resize") = {} <=> Reconciled = Upscaled
        /\ Positions("resize") # {} => pres.resize = Reconciled
        /\ file = ImageFile(Reconciled)

\* a 1 x 1 source enlarged by the model, resized to 3 x 2 and encoded
C16_Witness ==
    /\ EnhanceDone /\ pres.success
    /\ pin.ppi_horizontal = DEFAULT_PPI /\ pin.ppi_vertical = DEFAULT_PPI
    /\ pres.trace = <<"imread", "upscale_image", "resize", "save", "inches">>
    /\ Upscaled = <<ESRGAN_SCALE, ESRGAN_SCALE>>
    /\ pres.resize = <<3, 2>> /\ file = ImageFile(<<3, 2>>)

\* the model gave its output and the call went on
PastTheModel == Positions("upscale_image") = {2} /\ Len(pres.trace) > 2

\* C17: when enhance_image resizes the upscaled image it uses bicubic
\* interpolation if the target is larger than the upscaled image in the width
\* or in the height, area interpolation otherwise; when the target equals the
\* upscaled size on both axes cv2.resize is not called.
C17_InterpolationBySize ==
    (EnhanceDone /\ PastTheModel) =>
        LET target == Reconciled IN
        /\ target = Upscaled =>
               /\ Positions("resize") = {}
               /\ pres.resize = None /\ pres.interpolation = "none"
        /\ target # Upscaled =>
               /\ Positions("resize") # {} /\ pres.resize = target
               /\ (target[1] > Upscaled[1] \/ target[2] > Upscaled[2])
                      => pres.interpolation = "INTER_CUBIC"
               /\ (target[1] <= Upscaled[1] /\ target[2] <= Upscaled[2])
                      => pres.interpolation = "INTER_AREA"

\* a target wider but lower than the upscaled image was resized with bicubic
\* interpolation
C17_Witness ==
    /\ EnhanceDone /\ pres.success
    /\ pin.ppi_horizontal = DEFAULT_PPI /\ pin.ppi_vertical = DEFAULT_PPI
    /\ pres.resize # None
    /\ pres.resize[1] > Upscaled[1] /\ pres.resize[2] < Upscaled[2]
    /\ pres.interpolation = "INTER_CUBIC"

CoreOps ==
    OutlineOps \cup {"enhance_image", "upscale_only", "resize_image"}

\* C18: every call of a core operation returns a result and raises nothing
\* to its caller, whatever the arguments and whatever internal step failed:
\* the result is success = true with the output information, or
\* success = false with an error message.
C18_AlwaysReturnsAResult ==
    CallDone =>
        /\ Result.op \in CoreOps
        /\ ~Result.raised
        /\ Result.success \in BOOLEAN
        /\ Result.success => (Result.error = "" /\ Result.width >= 1 /\ Result.height >= 1)
        /\ ~Result.success => Result.error # ""

\* an exception raised inside cv2.cvtColor came back as a failure result of
\* extract_outline_advanced
C18_Witness ==
    /\ OutlineDone /\ ores.op = "extract_outline_advanced"
    /\ ores.env.fault = "cvtColor" /\ ores.trace = <<"imread", "cvtColor">>
    /\ ~ores.raised /\ ~ores.success /\ ores.error = "cv2.error"

\* ppi_horizontal or ppi_vertical is zero or negative
PpiNotPositive == pin.ppi_horizontal <= 0 \/ pin.ppi_vertical <= 0

\* C19: enhance_image with ppi_horizontal <= 0 or ppi_vertical <= 0 never
\* succeeds, and the physical size (target / ppi) is computed only with both
\* ppi above 0.
C19_NonPositivePpiRejected ==
    (EnhanceDone /\ PpiNotPositive) =>
        /\ ~pres.success
        /\ Positions("inches") = {}

\* C20: for every successful enhance_image, resize_image or outline
\* extraction the declared width and height are the pixel dimensions of the
\* image encoded at output_path, and for an outline extraction they are also
\* the dimensions of the input image.
C20_DeclaredSizeIsEncodedSize ==
    (CallDone /\ Result.success /\ Result.op # "upscale_only") =>
        /\ file = ImageFile(<<Result.width, Result.height>>)
        /\ OutlineDone => <<ores.width, ores.height>> = Shape(oin.image)

-----------------------------------------------------------------------------
(* The two reconciliations compared, checked under SpecDim.                *)

\* what ImageUtils.calculate_new_dimensions returns for the request
CalculatedForRequest ==
    calculate_new_dimensions(din.ow, din.oh, din.tw, din.th, din.maintain_aspect)

\* C21: the size enhance_image reconciles inline and resizes to is the size
\* calculate_new_dimensions returns for the same original size, the same
\* targets (present or absent) and the same maintain_aspect.
C21_EnhanceReconcilesAsCalculate ==
    (IsEnhance /\ PositiveOriginal) =>
        /\ CalculatedForRequest.kind = "ok"
        /\ EnhanceResolved =
               <<CalculatedForRequest.width, CalculatedForRequest.height>>

-----------------------------------------------------------------------------
(* Claims on the stages of the outline extraction, checked under           *)
(* SpecOutline.                                                            *)

IsPrefix(s, t) == Len(s) <= Len(t) /\ SubSeq(t, 1, Len(s)) = s

\* the thickness a request comes to
RequestedThickness == ClampThickness(DefaultThickness(oin.thickness))

\* Decode, Grayscale, Denoise, EdgeDetect
StagesToEdges ==
    IF oin.strategy = "extract_outline_advanced"
    THEN <<"imread", "cvtColor", "bilateralFilter">>
         \o (IF oin.auto_threshold THEN <<"threshold_otsu">> ELSE <<>>)
         \o <<"Canny">>
    ELSE <<"imread", "cvtColor", "GaussianBlur", "Canny">>

\* Thicken: the close of the adaptive strategy, the dilation above thickness 1
StagesThicken ==
    (IF oin.strategy = "extract_outline_advanced" THEN <<"morphologyEx">> ELSE <<>>)
    \o (IF RequestedThickness > 1 THEN <<"dilate">> ELSE <<>>)

\* Binarize/Invert, Encode
StagesFinish == <<"bitwise_not", "threshold", "imwrite">>

StagesInOrder == StagesToEdges \o StagesThicken \o StagesFinish

\* where a call appears in the trace of the extraction
CallsOf(stage) == {i \in DOMAIN ores.trace : ores.trace[i] = stage}

\* C22: every outline extraction runs Decode, Grayscale, Denoise, EdgeDetect,
\* Thicken, Binarize/Invert, Encode in this order, each at most once, none
\* skipped but the dilation at thickness 1 (a failure ends the run where it
\* happens); the adaptive strategy closes after the edge detection and before
\* the dilation, the other two strategies never close.
C22_StagesInOrder ==
    OutlineDone =>
        /\ IsPrefix(ores.trace, StagesInOrder)
        /\ ores.success => ores.trace = StagesInOrder
        /\ \A i, j \in DOMAIN ores.trace : ores.trace[i] = ores.trace[j] => i = j
        /\ (ores.success /\ RequestedThickness = 1) => CallsOf("dilate") = {}
        /\ (ores.success /\ RequestedThickness > 1) => CallsOf("dilate") # {}
        /\ oin.strategy # "extract_outline_advanced" => CallsOf("morphologyEx") = {}
        /\ (ores.success /\ oin.strategy = "extract_outline_advanced") =>
               /\ \E c \in CallsOf("Canny") : CallsOf("morphologyEx") = {c + 1}
               /\ \A d \in CallsOf("dilate") : CallsOf("morphologyEx") = {d - 1}

\* the adaptive strategy at thickness 3: close, then dilation
C22_Witness ==
    /\ OutlineDone /\ ores.success /\ ores.op = "extract_outline_advanced"
    /\ ores.thickness = 3
    /\ ores.trace = <<"imread", "cvtColor", "bilateralFilter", "threshold_otsu",
                      "Canny", "morphologyEx", "dilate", "bitwise_not",
                      "threshold", "imwrite">>

\* the median of the Otsu-binarized image, doubled
OtsuMedian2 == Median2(ores.env.whites, Cardinality(DOMAIN oin.image))

\* cv2.Canny was called by extract_outline_advanced with auto_threshold
AutoThresholdsGiven ==
    /\ OutlineDone /\ ores.op = "extract_outline_advanced" /\ oin.auto_threshold
    /\ ores.thresholds # <<>>

\* C26: in extract_outline_advanced with auto_threshold the thresholds given
\* to cv2.Canny are low = trunc(0.33 m) and high = trunc(0.66 m) for the
\* median m of the Otsu-binarized image; m is 0, 127.5 or 255, so (low, high)
\* is (0, 0), (42, 84) or (84, 168), and low < high fails exactly when m = 0.
C26_OtsuThresholds ==
    AutoThresholdsGiven =>
        LET low  == ores.thresholds[1]
            high == ores.thresholds[2]
        IN  /\ OtsuMedian2 \in {0, 255, 510}
            /\ 200 * low <= 33 * OtsuMedian2 /\ 33 * OtsuMedian2 < 200 * (low + 1)
            /\ 200 * high <= 66 * OtsuMedian2 /\ 66 * OtsuMedian2 < 200 * (high + 1)
            /\ <<low, high>> \in {<<0, 0>>, <<42, 84>>, <<84, 168>>}
            /\ low < high <=> OtsuMedian2 # 0

\* half of the pixels binarized to 255: the median 127.5 gave (42, 84)
C26_Witness ==
    /\ AutoThresholdsGiven /\ ores.success
    /\ OtsuMedian2 = 255 /\ ores.thresholds = <<42, 84>>

-----------------------------------------------------------------------------
(* Further claims on the image processor, checked under SpecCore.          *)

\* the same request to a processor whose model enlarges by the scale sc, the
\* libraries doing what they are asked
WithScale(sc) == enhance_image("loaded", [pin EXCEPT !.scale = sc], OkEnv)

\* C23: the output size of a successful enhance_image does not depend on the
\* scale of the model: it is the same for the scales 2 and 4, and it is the
\* reconciled target (the original size when no target is given).
C23_OutputSizeIgnoresScale ==
    (EnhanceDone /\ pres.success) =>
        /\ <<pres.width, pres.height>> = Reconciled
        /\ file = ImageFile(Reconciled)
        /\ (pin.tw = None /\ pin.th = None) => Reconciled = <<pin.ow, pin.oh>>
        /\ \A sc \in Scales :
               /\ WithScale(sc).success
               /\ WithScale(sc).width = pres.width
               /\ WithScale(sc).height = pres.height
               /\ WithScale(sc).written = file

\* no target given and a model of scale 2: the output has the original size,
\* the model's output having been resized down to it
C23_Witness ==
    /\ EnhanceDone /\ pres.success
    /\ pin.scale = 2 /\ pin.tw = None /\ pin.th = None
    /\ pin.ppi_horizontal = DEFAULT_PPI /\ pin.ppi_vertical = DEFAULT_PPI
    /\ pres.resize = <<pin.ow, pin.oh>> /\ file = ImageFile(<<pin.ow, pin.oh>>)

-----------------------------------------------------------------------------
(* Claims on the life of the model, checked under SpecLife.                *)

\* the step serves an enhancement request
ServesRequest == served' = served + 1

\* the step attempts to load the model
LoadAttempted == esrgan_model = "absent" /\ esrgan_model' # "absent"

\* the model stays loaded across enhancement requests and leaves the state
\* "loaded" only through cleanup()
StaysLoaded ==
    /\ (esrgan_model = "loaded" /\ ServesRequest) => esrgan_model' = "loaded"
    /\ (esrgan_model = "loaded" /\ esrgan_model' # "loaded") =>
           pres'.op = "cleanup" /\ esrgan_model' = "unloaded"

\* C24 as stated: the model is loaded on first use (no load is attempted
\* before the first enhancement request), once loaded it stays loaded across
\* enhancement requests, and it becomes not loaded only through an explicit
\* unload.
C24_LoadedOnFirstUse ==
    [][(LoadAttempted => served' >= 1) /\ StaysLoaded]_vars

\* C24, amended: the load is attempted when the processor is constructed,
\* before any enhancement request, and leaves the model loaded (or None when
\* it raised); no later step loads it; once loaded it stays loaded across
\* enhancement requests and becomes not loaded only through cleanup().
C24_LoadedAtConstruction ==
    [][/\ LoadAttempted =>
              /\ served = 0 /\ pres'.op = "__init__"
              /\ esrgan_model' \in {"loaded", "none"}
       /\ (esrgan_model # "loaded" /\ esrgan_model' = "loaded") => LoadAttempted
       /\ ServesRequest => esrgan_model # "absent"
       /\ StaysLoaded]_vars

\* the model is loaded and no request has been served yet
C24_Witness ==
    /\ esrgan_model = "loaded" /\ served = 0
    /\ pres = [op |-> "__init__"] /\ pin = IdleProc

\* the model is lost: the construction failed, or cleanup() unloaded it
ModelLost == esrgan_model \in {"none", "unloaded"}

\* C28: once the model is lost no call of enhance_image, upscale_only,
\* resize_image, get_model_info or cleanup makes it available again, and
\* every later enhance_image and upscale_only returns success = false.
C28_LostModelStaysLost ==
    [][ModelLost =>
          /\ ModelLost'
          /\ ServesRequest => ~pres'.success]_vars

\* the model was unloaded and a further enhance_image has failed on it
C28_Witness ==
    /\ esrgan_model = "unloaded" /\ served >= 2
    /\ EnhanceDone /\ pin.readable /\ ~pres.success
    /\ pres.error = "Model not loaded. Cannot perform upscaling."

-----------------------------------------------------------------------------
(* Claim on the encoding of the outline, checked under SpecOutline.        *)

\* the call came to cv2.imwrite
ImwriteCalled == OutlineDone /\ ores.encode # NoEncode

\* C25: the three outline strategies choose the encode options from the
\* output extension in the same way: maximum lossless compression for PNG,
\* quality 95 for JPEG and WebP, an unrecognized extension encoded as PNG
\* rather than failing; the options do not depend on the strategy.
C25_EncodeOptionsByExtension ==
    ImwriteCalled =>
        LET ext    == oin.ext
            params == ores.encode.params
        IN  /\ Writer(ext) = "png" => params = <<"IMWRITE_PNG_COMPRESSION", 9>>
            /\ Writer(ext) = "jpeg" => params = <<"IMWRITE_JPEG_QUALITY", 95>>
            /\ Writer(ext) = "webp" => params = <<"IMWRITE_WEBP_QUALITY", 95>>
            /\ Writer(ext) = "none" =>
                   /\ params = <<"IMWRITE_PNG_COMPRESSION", 9>>
                   /\ ores.encode.format = "png"
                   /\ ores.error # "cv2.error"
            /\ params = OutlineParams(ext)
            /\ params = AdvancedParams(ext)
            /\ params = DetailParams(ext)

-----------------------------------------------------------------------------
(* Claims on the web application, checked under SpecWeb.                   *)

\* a request has passed the checks of its handler and is not answered yet
InFlight == req # NoRequest

\* the input of the request in flight has still to be read
InputStillToRead == InFlight /\ req.pc \in {"imread", "upscale"}

\* the step answers the request in flight
Answers == InFlight /\ req' = NoRequest

\* C27: the janitor, run at any point between the steps of upload, enhance
\* and outline requests, removes a file only if its age exceeds the
\* threshold, never removes the input file a request in flight has still to
\* read nor the output file it has produced, and the outcome of a request is
\* the one it has without the janitor (a request admitted on a decodable
\* image succeeds, the libraries doing what they are asked).
C27_JanitorSparesRequests ==
    [][/\ \A f \in disk \ disk' : now - f.mtime > CLEANUP_AFTER_HOURS
       /\ InputStillToRead =>
              At(disk, req.folder, req.filename) \subseteq disk'
       /\ (InFlight /\ req.pc = "respond") =>
              At(disk, IF req.kind = "enhance" THEN "enhanced" ELSE "outlined",
                 req.output[1]) \subseteq disk'
       /\ Answers => (resp'.status = 200 <=> req.admitted)]_vars

\* the step gives the answer of POST /api/upload
UploadAnswered == resp' # resp /\ resp'.kind = "upload"

\* C29: if POST /api/upload answers with an error (missing file, empty name,
\* disallowed extension, unreadable image information), no file of that
\* request remains in the upload folder and the session's uploaded_image and
\* original_dimensions are unchanged.
C29_FailedUploadLeavesNothing ==
    [][(UploadAnswered /\ resp'.status # 200) =>
          /\ {f \in disk' : f.folder = "uploads"} \subseteq disk
          /\ session'.uploaded_image = session.uploaded_image
          /\ session'.original_dimensions = session.original_dimensions]_vars

\* C30: in every successful response of POST /api/extract-outline the
\* original_url names the file used as the input: in the enhanced folder
\* exactly when the input was read there, in the uploads folder exactly when
\* it was read there.
C30_OriginalUrlNamesInput ==
    (resp.kind = "outline" /\ resp.status = 200) =>
        resp.original_url = Some(resp.input)

====
